---- MODULE Spec2Model ----
(***************************************************************************)
(* The idle/activity/panel controller and the Codespaces keep-alive of    *)
(* otak-screensaver (src/src/extension.ts), as a state machine.           *)
(*                                                                         *)
(* Time: every instant the program stores is kept relative to Date.now(), *)
(* i.e. Date.now() is the origin 0 of the frame and Tick(d) shifts every  *)
(* stored instant d ms towards the past (an instant already in the past   *)
(* stays at 0).  ignoreActivityUntil = 300 reads "300 ms from now".       *)
(* sinceSelfAction is the time since the extension last opened or closed  *)
(* the panel itself (-1: it never did), counted up to the length of the   *)
(* ignore window; the age of a timeout is the time since setTimeout,      *)
(* counted up to its delay; sinceHeartbeat is the time since a heartbeat  *)
(* of the keep-alive last started (-1: none did), counted up to a minute. *)
(*                                                                         *)
(* Numbers of the settings store are kept in thousandths (Num(1) is the   *)
(* JavaScript number 1, Num(1) \div 2 is 0.5).                             *)
(*                                                                         *)
(* The closures of activate() are operators from a program state (a       *)
(* record with one field per variable) to the program state after the     *)
(* call; an action applies the operator of its handler to the current     *)
(* state.  doc is the document a panel displays, with the bootstrap       *)
(* script of getWebviewHtml running in it; page is an animation asset     *)
(* and what getWebviewHtml makes of it; lint is a Markdown text and what   *)
(* the scan of scripts/jp-colon-lint.js reports for it.                    *)
(***************************************************************************)
EXTENDS Integers, Sequences, FiniteSets, TLC

VARIABLES cfg, focused, env, unreadable,
          currentPanel, idleTimer, codespacesKeepAliveTimer,
          ignoreActivityUntil, sendingCodespacesKeepAlive,
          panels, timeouts, intervals, calls, inbox, disposed,
          autoStartScopes, settingsMigrationVersion, activation,
          sinceSelfAction, sinceHeartbeat, last,
          doc, page, lint

vars == <<cfg, focused, env, unreadable, currentPanel, idleTimer,
          codespacesKeepAliveTimer, ignoreActivityUntil,
          sendingCodespacesKeepAlive, panels, timeouts, intervals, calls,
          inbox, disposed, autoStartScopes, settingsMigrationVersion,
          activation, sinceSelfAction, sinceHeartbeat, last, doc,
          page, lint>>

----------------------------------------------------------------------------
(* Program constants *)

INTERNAL_ACTIVITY_IGNORE_MS == 500
CODESPACES_KEEPALIVE_DEFAULT_INTERVAL_MINUTES == 3
DEFAULT_IDLE_MINUTES == 5
MS_PER_MINUTE == 60000
WEBVIEW_ACTIVITY_MESSAGE_TYPE == "otakScreensaver.userActivity"
SETTINGS_MIGRATION_VERSION == 1

ScreenSaverIds == {"beziers", "mystify", "flyingWindows"}

SCREENSAVERS ==
    [id \in ScreenSaverIds |->
        CASE id = "beziers"       -> [title |-> "Beziers", filename |-> "screensavers/beziers.html"]
          [] id = "mystify"       -> [title |-> "Mystify", filename |-> "screensavers/mystify.html"]
          [] id = "flyingWindows" -> [title |-> "Flying Windows", filename |-> "screensavers/flying-windows.html"]]

----------------------------------------------------------------------------
(* Bounds of the model *)

\* host objects that can exist at once (panels, timeouts, intervals, calls)
MaxPanels == 2
MaxTimers == 2
MaxIntervals == 2
MaxCalls == 2
\* ignore windows that may elapse during one idle countdown before time only
\* advances to the instant the countdown ends
MaxWindows == 2
\* the largest number of minutes written to a numeric setting
MaxMinutes == 7
\* the count of the messages one document posted stops here
MaxPosts == 2

\* wake locks of a document that are held or referred to at the same time
MaxSentinels == 2

\* calls of navigator.wakeLock.request that are pending at the same time
MaxRequests == 2

\* calls of WakeLockSentinel.release that are pending at the same time
MaxReleases == 2

\* tags and runs of text of an animation asset
MaxTokens == 3

\* lines of a Markdown text
MaxLines == 4

----------------------------------------------------------------------------
(* Values *)

undefined == "<undefined>"

Num(n) == n * 1000
Max(a, b) == IF a >= b THEN a ELSE b
Min(a, b) == IF a <= b THEN a ELSE b

\* a stored setting that is a finite JavaScript number
Number(n) == [t |-> "number", n |-> n]
NotANumber == [t |-> "NaN", n |-> 0]
Infinity == [t |-> "Infinity", n |-> 0]
NegInfinity == [t |-> "-Infinity", n |-> 0]
Unset == [t |-> "undefined", n |-> 0]
AString == [t |-> "string", n |-> 0]
ABoolean == [t |-> "boolean", n |-> 0]
Null == [t |-> "object", n |-> 0]

\* typeof v === 'number'
TypeofNumber(v) == v.t \in {"number", "NaN", "Infinity", "-Infinity"}

\* the finite map of host objects: handle -> record
NoObjects == [h \in {} |-> 0]
Put(f, h, r) == [x \in DOMAIN f \cup {h} |-> IF x = h THEN r ELSE f[x]]
Drop(f, h) == [x \in DOMAIN f \ {h} |-> f[x]]

\* the handle the host gives the next object; 0 when the model's pool is used up
FreshId(used, max) ==
    IF \E h \in 1..max : h \notin used
    THEN CHOOSE h \in 1..max : h \notin used /\ \A g \in 1..max : g \notin used => h <= g
    ELSE 0

\* the scopes of the settings store, in the order overwriteSetting tests them
Scopes == <<"workspaceFolder", "workspace", "global">>

\* a boolean as settings.json holds it
Json(b) == IF b THEN "true" ELSE "false"

\* autoStart is set in the user settings only
UserScope(value) ==
    [workspaceFolder |-> undefined, workspace |-> undefined, global |-> Json(value)]

\* config.get('autoStart', true): the value of the innermost scope that sets it
Effective(scopes) ==
    IF scopes.workspaceFolder # undefined THEN scopes.workspaceFolder = "true"
    ELSE IF scopes.workspace # undefined THEN scopes.workspace = "true"
    ELSE IF scopes.global # undefined THEN scopes.global = "true"
    ELSE TRUE

ScopeNames == {Scopes[i] : i \in 1..Len(Scopes)}

\* autoStart is set in no scope
NoScope == [sc \in ScopeNames |-> undefined]

\* activate() past migrateSettings(): inspected and targets are the locals of
\* overwriteSetting, next the position of its loop over targets
Migrated == [pc |-> "active", inspected |-> NoScope, targets |-> <<>>, next |-> 1]

----------------------------------------------------------------------------
(* Configuration accessors (each call reads the live store s.cfg) *)

\* the accessor returning the stored string as it is
getConfiguredMode_Unvalidated(s) ==
    IF s.cfg.mode = undefined THEN "random" ELSE s.cfg.mode

getConfiguredMode(s) ==
    LET mode == IF s.cfg.mode = undefined THEN "random" ELSE s.cfg.mode
    IN  IF mode = "beziers" \/ mode = "mystify" \/ mode = "flyingWindows" \/ mode = "random"
        THEN mode
        ELSE "random"

getAutoStartEnabled(s) == s.cfg.autoStart

getPreventDisplaySleepEnabled(s) == s.cfg.preventDisplaySleep

\* the accessor without the Number.isFinite test (NaN <= 0 and Infinity <= 0
\* are false, so both are returned)
getIdleMinutes_NoFiniteCheck(s) ==
    LET minutes == IF s.cfg.idleMinutes.t = "undefined"
                   THEN Number(Num(DEFAULT_IDLE_MINUTES))
                   ELSE s.cfg.idleMinutes
    IN  IF ~TypeofNumber(minutes)
           \/ (minutes.t = "number" /\ minutes.n <= 0)
           \/ minutes.t = "-Infinity"
        THEN Num(DEFAULT_IDLE_MINUTES)
        ELSE IF minutes.t = "number" THEN minutes.n ELSE Num(0)

getIdleMinutes(s) ==
    LET minutes == IF s.cfg.idleMinutes.t = "undefined"
                   THEN Number(Num(DEFAULT_IDLE_MINUTES))
                   ELSE s.cfg.idleMinutes
    IN  IF ~TypeofNumber(minutes)        \* typeof minutes !== 'number'
           \/ minutes.t # "number"       \* !Number.isFinite(minutes)
           \/ minutes.n <= 0
        THEN Num(DEFAULT_IDLE_MINUTES)
        ELSE minutes.n

\* the delay taken for seconds: minutes * 1_000
getIdleMs_Seconds(s) == Max(Num(1), getIdleMinutes(s))

\* the delay without Math.max: minutes * 60_000
getIdleMs_Unclamped(s) == (getIdleMinutes(s) * MS_PER_MINUTE) \div Num(1)

\* Math.max(1, minutes) * 60_000, in ms
getIdleMs(s) == (Max(Num(1), getIdleMinutes(s)) * MS_PER_MINUTE) \div Num(1)

getCodespacesKeepAliveEnabled(s) == s.cfg.codespacesKeepAlive

getCodespacesKeepAliveIntervalMinutes(s) ==
    LET minutes == IF s.cfg.codespacesKeepAliveIntervalMinutes.t = "undefined"
                   THEN Number(Num(CODESPACES_KEEPALIVE_DEFAULT_INTERVAL_MINUTES))
                   ELSE s.cfg.codespacesKeepAliveIntervalMinutes
    IN  IF ~TypeofNumber(minutes)
           \/ minutes.t # "number"
           \/ minutes.n <= 0
        THEN Num(CODESPACES_KEEPALIVE_DEFAULT_INTERVAL_MINUTES)
        ELSE minutes.n

\* the interval without Math.max: minutes * 60_000
getCodespacesKeepAliveIntervalMs_Unclamped(s) ==
    (getCodespacesKeepAliveIntervalMinutes(s) * MS_PER_MINUTE) \div Num(1)

getCodespacesKeepAliveIntervalMs(s) ==
    (Max(Num(1), getCodespacesKeepAliveIntervalMinutes(s)) * MS_PER_MINUTE) \div Num(1)

\* String.prototype.toLowerCase on the strings the environment can hold here
toLowerCase(str) == IF str \in {"true", "TRUE", "True"} THEN "true" ELSE str

isCodespacesEnvironment(s) ==
    LET codespaces == s.env.CODESPACES
        forwardingDomain == s.env.GITHUB_CODESPACES_PORT_FORWARDING_DOMAIN
    IN  IF codespaces # undefined /\ toLowerCase(codespaces) = "true"
        THEN TRUE
        ELSE forwardingDomain # undefined /\ forwardingDomain # ""

\* resolveScreenSaver drawing for every mode
resolveScreenSaver_AlwaysDraws(mode, pick) == pick

\* ids[Math.floor(Math.random() * ids.length)]: pick is the id the draw selects
resolveScreenSaver(mode, pick) ==
    IF mode = "beziers" \/ mode = "mystify" \/ mode = "flyingWindows" THEN mode ELSE pick

----------------------------------------------------------------------------
(* The closures of activate() *)

setIgnoreActivityFor(s, ms) == [s EXCEPT !.ignoreActivityUntil = 0 + ms]

isIgnoringActivity(s) == 0 < s.ignoreActivityUntil

clearTimeout(s, h) == [s EXCEPT !.timeouts = Drop(@, h)]

clearInterval(s, h) == [s EXCEPT !.intervals = Drop(@, h)]

\* fs.readFileSync throws for an asset that is missing or unreadable; the html
\* of the panel is assigned only when getWebviewHtml returned
setHtml(s, id) ==
    IF id \in s.unreadable \/ s.currentPanel \notin DOMAIN s.panels
    THEN [s EXCEPT !.thrown = TRUE]
    ELSE [s EXCEPT !.panels[s.currentPanel].html = SCREENSAVERS[id].filename,
                   !.panels[s.currentPanel].sent = FALSE,
                   !.panels[s.currentPanel].posts = 0]

createWebviewPanel(s, title) ==
    LET p == FreshId(DOMAIN s.panels, MaxPanels)
    IN  IF p = 0
        THEN [s EXCEPT !.overflow = TRUE]
        ELSE [s EXCEPT !.panels = Put(@, p, [title |-> title, html |-> "",
                                             sent |-> FALSE, posts |-> 0]),
                       !.currentPanel = p]

retitleAndReveal(s, title) ==
    IF s.currentPanel \notin DOMAIN s.panels
    THEN [s EXCEPT !.thrown = TRUE]
    ELSE [s EXCEPT !.panels[s.currentPanel].title = title]

\* show() creating a panel whether or not one exists
show_AlwaysCreates(s, mode, pick) ==
    LET resolved == resolveScreenSaver(mode, pick)
        title == SCREENSAVERS[resolved].title
        s1 == setIgnoreActivityFor(s, INTERNAL_ACTIVITY_IGNORE_MS)
        s2 == createWebviewPanel(s1, title)
    IN  IF s2.thrown \/ s2.overflow THEN s2 ELSE setHtml(s2, resolved)

show(s, mode, pick) ==
    LET resolved == resolveScreenSaver(mode, pick)
        title == SCREENSAVERS[resolved].title
        s1 == setIgnoreActivityFor(s, INTERNAL_ACTIVITY_IGNORE_MS)
        s2 == IF s1.currentPanel = 0
              THEN createWebviewPanel(s1, title)
              ELSE retitleAndReveal(s1, title)
    IN  IF s2.thrown \/ s2.overflow THEN s2 ELSE setHtml(s2, resolved)

\* the callback without the re-check of the window focus
idleTimerCallback_NoFocusRecheck(s, pick) ==
    LET s1 == [s EXCEPT !.idleTimer = 0]
    IN  IF ~getAutoStartEnabled(s1) THEN s1
        ELSE IF s1.currentPanel # 0 THEN s1
        ELSE show(setIgnoreActivityFor(s1, INTERNAL_ACTIVITY_IGNORE_MS),
                  getConfiguredMode(s1), pick)

\* the callback leaving the handle of the fired timeout in idleTimer
idleTimerCallback_KeepsHandle(s, pick) ==
    IF ~getAutoStartEnabled(s) THEN s
    ELSE IF ~s.focused THEN s
    ELSE IF s.currentPanel # 0 THEN s
    ELSE show(setIgnoreActivityFor(s, INTERNAL_ACTIVITY_IGNORE_MS),
              getConfiguredMode(s), pick)

idleTimerCallback(s, pick) ==
    LET s1 == [s EXCEPT !.idleTimer = 0]
    IN  IF ~getAutoStartEnabled(s1) THEN s1
        ELSE IF ~s1.focused THEN s1
        ELSE IF s1.currentPanel # 0 THEN s1
        ELSE show(setIgnoreActivityFor(s1, INTERNAL_ACTIVITY_IGNORE_MS),
                  getConfiguredMode(s1), pick)

\* restartIdleTimer arming without clearing the pending timeout
restartIdleTimer_NoCancel(s) ==
    IF ~getAutoStartEnabled(s) THEN s
    ELSE IF ~s.focused THEN s
    ELSE IF s.currentPanel # 0 THEN s
    ELSE LET idleMs == getIdleMs(s)
             h == FreshId(DOMAIN s.timeouts, MaxTimers)
         IN  IF h = 0
             THEN [s EXCEPT !.overflow = TRUE]
             ELSE [s EXCEPT !.timeouts = Put(@, h, [left |-> idleMs, delay |-> idleMs, age |-> 0]),
                            !.idleTimer = h]

restartIdleTimer(s) ==
    LET s1 == IF s.idleTimer # 0
              THEN [clearTimeout(s, s.idleTimer) EXCEPT !.idleTimer = 0]
              ELSE s
    IN  IF ~getAutoStartEnabled(s1) THEN s1
        ELSE IF ~s1.focused THEN s1
        ELSE IF s1.currentPanel # 0 THEN s1
        ELSE LET idleMs == getIdleMs(s1)
                 h == FreshId(DOMAIN s1.timeouts, MaxTimers)
             IN  IF h = 0
                 THEN [s1 EXCEPT !.overflow = TRUE]
                 ELSE [s1 EXCEPT !.timeouts = Put(@, h, [left |-> idleMs, delay |-> idleMs, age |-> 0]),
                                 !.idleTimer = h]

\* the listener without restartIdleTimer()
onDidDispose_NoRearm(s) == [s EXCEPT !.currentPanel = 0]

\* currentPanel.onDidDispose(() => { ... })
onDidDispose(s) == restartIdleTimer([s EXCEPT !.currentPanel = 0])

\* panel.dispose(): the host drops the panel and fires its onDidDispose listeners
panelDispose(s, p) ==
    IF p \notin DOMAIN s.panels
    THEN s
    ELSE onDidDispose([s EXCEPT !.panels = Drop(@, p)])

\* stopScreensaver without the return for no panel
stopScreensaver_NoGuard(s) ==
    LET panel == s.currentPanel
        s1 == [s EXCEPT !.currentPanel = 0]
        s2 == setIgnoreActivityFor(s1, INTERNAL_ACTIVITY_IGNORE_MS)
        s3 == panelDispose(s2, panel)
    IN  restartIdleTimer(s3)

\* stopScreensaver without setIgnoreActivityFor
stopScreensaver_NoIgnoreWindow(s) ==
    IF s.currentPanel = 0
    THEN s
    ELSE LET panel == s.currentPanel
             s1 == [s EXCEPT !.currentPanel = 0]
             s3 == panelDispose(s1, panel)
         IN  restartIdleTimer(s3)

stopScreensaver(s) ==
    IF s.currentPanel = 0
    THEN s
    ELSE LET panel == s.currentPanel
             s1 == [s EXCEPT !.currentPanel = 0]
             s2 == setIgnoreActivityFor(s1, INTERNAL_ACTIVITY_IGNORE_MS)
             s3 == panelDispose(s2, panel)
         IN  restartIdleTimer(s3)

\* the handler restarting the countdown for an event it drops
handleUserActivity_RestartsWhenIgnored(s, bypassSuppression) ==
    IF ~bypassSuppression /\ isIgnoringActivity(s) THEN restartIdleTimer(s)
    ELSE IF s.currentPanel # 0 THEN stopScreensaver(s)
    ELSE restartIdleTimer(s)

\* the handler without the ignore window
handleUserActivity_NoSuppression(s, bypassSuppression) ==
    IF s.currentPanel # 0 THEN stopScreensaver(s)
    ELSE restartIdleTimer(s)

handleUserActivity(s, bypassSuppression) ==
    IF ~bypassSuppression /\ isIgnoringActivity(s) THEN s
    ELSE IF s.currentPanel # 0 THEN stopScreensaver(s)
    ELSE restartIdleTimer(s)

\* !message: null, undefined, false, 0 and the empty string
Falsy(message) == message.shape \in {"null", "undefined", "false", "zero", "emptyString"}

\* typeof message
typeof(message) ==
    CASE message.shape \in {"null", "object", "array"} -> "object"
      [] message.shape \in {"string", "emptyString"} -> "string"
      [] message.shape \in {"number", "zero"} -> "number"
      [] message.shape \in {"true", "false"} -> "boolean"
      [] OTHER -> "undefined"

\* the listener calling handleUserActivity() without the bypass
onDidReceiveMessage_NoBypass(s, message) ==
    IF Falsy(message) \/ typeof(message) # "object" THEN s
    ELSE IF message.type = WEBVIEW_ACTIVITY_MESSAGE_TYPE THEN handleUserActivity(s, FALSE)
    ELSE s

\* the listener without the !message test: reading the type of null throws
onDidReceiveMessage_NoNullCheck(s, message) ==
    IF typeof(message) # "object" THEN s
    ELSE IF message.shape = "null" THEN [s EXCEPT !.thrown = TRUE]
    ELSE IF message.type = WEBVIEW_ACTIVITY_MESSAGE_TYPE THEN handleUserActivity(s, TRUE)
    ELSE s

\* webview.onDidReceiveMessage((message) => { ... })
onDidReceiveMessage(s, message) ==
    IF Falsy(message) \/ typeof(message) # "object" THEN s
    ELSE IF message.type = WEBVIEW_ACTIVITY_MESSAGE_TYPE THEN handleUserActivity(s, TRUE)
    ELSE s

\* the command subject to the ignore window
toggleScreenSaver_Suppressed(s, pick) ==
    IF isIgnoringActivity(s) THEN s
    ELSE IF s.currentPanel # 0 THEN stopScreensaver(s)
    ELSE show(s, getConfiguredMode(s), pick)

toggleScreenSaver(s, pick) ==
    IF s.currentPanel # 0
    THEN stopScreensaver(s)
    ELSE show(s, getConfiguredMode(s), pick)

\* the body of sendCodespacesKeepAliveHeartbeat up to its first await
sendCodespacesKeepAliveHeartbeat(s) ==
    LET c == FreshId(DOMAIN s.calls, MaxCalls)
    IN  IF c = 0
        THEN [s EXCEPT !.overflow = TRUE]
        ELSE [s EXCEPT !.calls = Put(@, c, [pc |-> "createDirectory"])]

\* heartbeat without the in-flight guard
heartbeat_NoGuard(s) ==
    sendCodespacesKeepAliveHeartbeat([s EXCEPT !.sendingCodespacesKeepAlive = TRUE])

\* const heartbeat = async () => { ... }, up to its await
heartbeat(s) ==
    IF s.sendingCodespacesKeepAlive
    THEN s
    ELSE sendCodespacesKeepAliveHeartbeat([s EXCEPT !.sendingCodespacesKeepAlive = TRUE])

\* the rest of heartbeat with a catch that logs and throws again
heartbeatSettled_Rethrows(s, c, failed) ==
    [s EXCEPT !.calls = Drop(@, c),
              !.warned = failed,
              !.thrown = failed,
              !.sendingCodespacesKeepAlive = FALSE]

\* the rest of heartbeat with the flag reset at the end of the try block
\* instead of in a finally
heartbeatSettled_NoFinally(s, c, failed) ==
    [s EXCEPT !.calls = Drop(@, c),
              !.warned = failed,
              !.sendingCodespacesKeepAlive = failed]

\* the rest of heartbeat once the awaited call c settled: catch, finally
heartbeatSettled(s, c, failed) ==
    [s EXCEPT !.calls = Drop(@, c),
              !.warned = failed,
              !.sendingCodespacesKeepAlive = FALSE]

\* an awaited step of call c settles: the next step is issued, or the call ends
awaitSettles(s, c, ok) ==
    LET pc == s.calls[c].pc
    IN  IF ~ok THEN heartbeatSettled(s, c, TRUE)
        ELSE IF pc = "createDirectory" THEN [s EXCEPT !.calls[c].pc = "stat"]
        ELSE IF pc = "stat" THEN [s EXCEPT !.calls[c].pc = "setContext"]
        ELSE heartbeatSettled(s, c, FALSE)

\* the restart without the check of the codespacesKeepAlive setting
restartCodespacesKeepAlive_NoEnabledCheck(s) ==
    LET s1 == IF s.codespacesKeepAliveTimer # 0
              THEN [clearInterval(s, s.codespacesKeepAliveTimer)
                        EXCEPT !.codespacesKeepAliveTimer = 0]
              ELSE s
    IN  IF ~isCodespacesEnvironment(s1) THEN s1
        ELSE LET s2 == heartbeat(s1)
                 ms == getCodespacesKeepAliveIntervalMs(s2)
                 h == FreshId(DOMAIN s2.intervals, MaxIntervals)
             IN  IF h = 0
                 THEN [s2 EXCEPT !.overflow = TRUE]
                 ELSE [s2 EXCEPT !.intervals = Put(@, h, [left |-> ms, period |-> ms]),
                                 !.codespacesKeepAliveTimer = h]

\* the restart leaving the first heartbeat to the first tick of the interval
restartCodespacesKeepAlive_NoImmediateHeartbeat(s) ==
    LET s1 == IF s.codespacesKeepAliveTimer # 0
              THEN [clearInterval(s, s.codespacesKeepAliveTimer)
                        EXCEPT !.codespacesKeepAliveTimer = 0]
              ELSE s
    IN  IF ~isCodespacesEnvironment(s1) THEN s1
        ELSE IF ~getCodespacesKeepAliveEnabled(s1) THEN s1
        ELSE LET ms == getCodespacesKeepAliveIntervalMs(s1)
                 h == FreshId(DOMAIN s1.intervals, MaxIntervals)
             IN  IF h = 0
                 THEN [s1 EXCEPT !.overflow = TRUE]
                 ELSE [s1 EXCEPT !.intervals = Put(@, h, [left |-> ms, period |-> ms]),
                                 !.codespacesKeepAliveTimer = h]

\* const restartCodespacesKeepAlive = () => { ... }
restartCodespacesKeepAlive(s) ==
    LET s1 == IF s.codespacesKeepAliveTimer # 0
              THEN [clearInterval(s, s.codespacesKeepAliveTimer)
                        EXCEPT !.codespacesKeepAliveTimer = 0]
              ELSE s
    IN  IF ~isCodespacesEnvironment(s1) THEN s1
        ELSE IF ~getCodespacesKeepAliveEnabled(s1) THEN s1
        ELSE LET s2 == heartbeat(s1)
                 ms == getCodespacesKeepAliveIntervalMs(s2)
                 h == FreshId(DOMAIN s2.intervals, MaxIntervals)
             IN  IF h = 0
                 THEN [s2 EXCEPT !.overflow = TRUE]
                 ELSE [s2 EXCEPT !.intervals = Put(@, h, [left |-> ms, period |-> ms]),
                                 !.codespacesKeepAliveTimer = h]

\* the listener subject to the ignore window
onDidChangeConfiguration_Suppressed(s, affectsOtakScreensaver) ==
    IF affectsOtakScreensaver /\ ~isIgnoringActivity(s)
    THEN restartCodespacesKeepAlive(restartIdleTimer(s))
    ELSE s

\* vscode.workspace.onDidChangeConfiguration((e) => { ... })
onDidChangeConfiguration(s, affectsOtakScreensaver) ==
    IF affectsOtakScreensaver
    THEN restartCodespacesKeepAlive(restartIdleTimer(s))
    ELSE s

\* new vscode.Disposable(() => { ... }), run when context.subscriptions is disposed
teardown(s) ==
    LET s1 == IF s.idleTimer # 0
              THEN [clearTimeout(s, s.idleTimer) EXCEPT !.idleTimer = 0]
              ELSE s
    IN  IF s1.codespacesKeepAliveTimer # 0
        THEN [clearInterval(s1, s1.codespacesKeepAliveTimer)
                  EXCEPT !.codespacesKeepAliveTimer = 0]
        ELSE s1

\* the host disposes every subscription of the extension context
disposeSubscriptions(s) == [teardown(s) EXCEPT !.disposed = TRUE]

\* the end of activate(): restartIdleTimer(); restartCodespacesKeepAlive();
activate(s) == restartCodespacesKeepAlive(restartIdleTimer(s))

\* the store after value is written to autoStart in scope target
configUpdate(s, target, value) ==
    LET scopes == [s.autoStartScopes EXCEPT ![target] = value]
    IN  [s EXCEPT !.autoStartScopes = scopes, !.cfg.autoStart = Effective(scopes)]

\* overwriteSetting writing the user settings whatever scopes set the key
overwriteSetting_GlobalOnly(s) ==
    [s EXCEPT !.activation = [pc |-> "update", inspected |-> s.autoStartScopes,
                              targets |-> <<"global">>, next |-> 1]]

\* overwriteSetting without the fallback to the user settings: nothing is
\* written where no scope sets the key
overwriteSetting_NoFallback(s) ==
    LET inspected == s.autoStartScopes
        set == SelectSeq(Scopes, LAMBDA sc : inspected[sc] # undefined)
    IN  [s EXCEPT !.activation = [pc |-> IF Len(set) = 0 THEN "advance" ELSE "update",
                                  inspected |-> inspected,
                                  targets |-> set, next |-> 1]]

\* overwriteSetting(config, 'autoStart', true) up to its first config.update
overwriteSetting(s) ==
    LET inspected == s.autoStartScopes
        set == SelectSeq(Scopes, LAMBDA sc : inspected[sc] # undefined)
        targets == IF Len(set) = 0 THEN <<"global">> ELSE set
    IN  [s EXCEPT !.activation = [pc |-> "update", inspected |-> inspected,
                                  targets |-> targets, next |-> 1]]

\* migrateSettings overwriting on every activation
migrateSettings_NoVersionCheck(s) == overwriteSetting(s)

\* migrateSettings(context) up to its first await
migrateSettings(s) ==
    LET current == s.settingsMigrationVersion
    IN  IF current >= SETTINGS_MIGRATION_VERSION
        THEN [s EXCEPT !.activation.pc = "activate"]
        ELSE overwriteSetting(s)

\* a failed config.update reported and the migration carried on to the version
configUpdateSettled_CarriesOn(s, ok) ==
    IF ~ok
    THEN [s EXCEPT !.activation.pc = "advance", !.thrown = TRUE]
    ELSE LET s1 == configUpdate(s, s.activation.targets[s.activation.next], "true")
         IN  [s1 EXCEPT !.activation.next = s.activation.next + 1,
                        !.activation.pc = IF s.activation.next + 1 > Len(s.activation.targets)
                                          THEN "advance"
                                          ELSE "update"]

\* the awaited config.update(key, value, target) settles: the loop of
\* overwriteSetting goes on, and past its end migrateSettings updates the
\* stored version; a rejection rejects activate()
configUpdateSettled(s, ok) ==
    LET a == s.activation
    IN  IF ~ok
        THEN [s EXCEPT !.activation.pc = "rejected", !.thrown = TRUE]
        ELSE LET s1 == configUpdate(s, a.targets[a.next], "true")
             IN  [s1 EXCEPT !.activation.next = a.next + 1,
                            !.activation.pc = IF a.next + 1 > Len(a.targets)
                                              THEN "advance"
                                              ELSE "update"]

\* the awaited globalState.update('settingsMigrationVersion', 1) settles
globalStateUpdateSettled(s, ok) ==
    IF ~ok
    THEN [s EXCEPT !.activation.pc = "rejected", !.thrown = TRUE]
    ELSE [s EXCEPT !.settingsMigrationVersion = SETTINGS_MIGRATION_VERSION,
                   !.activation.pc = "activate"]

\* activate() after await migrateSettings(context)
activateAfterMigration(s) == activate([s EXCEPT !.activation = Migrated])

----------------------------------------------------------------------------
(* The state machine *)

\* the program state as the operators above take it
Cur ==
    [cfg |-> cfg, focused |-> focused, env |-> env, unreadable |-> unreadable,
     currentPanel |-> currentPanel, idleTimer |-> idleTimer,
     codespacesKeepAliveTimer |-> codespacesKeepAliveTimer,
     ignoreActivityUntil |-> ignoreActivityUntil,
     sendingCodespacesKeepAlive |-> sendingCodespacesKeepAlive,
     panels |-> panels, timeouts |-> timeouts, intervals |-> intervals,
     calls |-> calls, inbox |-> inbox, disposed |-> disposed,
     autoStartScopes |-> autoStartScopes,
     settingsMigrationVersion |-> settingsMigrationVersion,
     activation |-> activation,
     thrown |-> FALSE, warned |-> FALSE, overflow |-> FALSE]

\* the commands that show one animation
ShowCommands ==
    [id \in ScreenSaverIds |->
        CASE id = "beziers"       -> "otak-screensaver.showBeziers"
          [] id = "mystify"       -> "otak-screensaver.showMystify"
          [] id = "flyingWindows" -> "otak-screensaver.showFlyingWindows"]

ShowCommandNames == {ShowCommands[id] : id \in ScreenSaverIds}

\* what the step just taken was: the handler, what it found and what it did
Observed(op, s, t) ==
    [op |-> op,
     ignoring |-> isIgnoringActivity(s),
     inWindow |-> FALSE,
     hadPanel |-> s.currentPanel # 0,
     threw |-> t.thrown,
     warned |-> t.warned,
     started |-> ~(DOMAIN t.calls \subseteq DOMAIN s.calls),
     gap |-> -1,
     posted |-> \E p \in DOMAIN s.panels \cap DOMAIN t.panels :
                    t.panels[p].posts > s.panels[p].posts]

\* less than the ignore window has passed since the extension last opened or
\* closed the panel itself: t < T + 500 ms
InWindow == sinceSelfAction >= 0 /\ sinceSelfAction < 500

\* the step opened or closed the panel on the extension's own account: show()
\* ran (a command, or the timer callback when it opens the panel), or an
\* activity handler stopped the panel
SelfTriggered(op, s, t) ==
    \/ op \in ShowCommandNames
    \/ op = "toggle"
    \/ op \in {"idleTimer", "hostSignal", "windowState", "message"} /\ t.panels # s.panels

\* no document is looked at
NoDocument == [op |-> "none"]

\* no asset is loaded
NoPage == [pc |-> "none"]

\* no text is scanned
NoText == [pc |-> "none"]

\* what a step of the extension host leaves alone
Elsewhere == doc' = doc /\ page' = page /\ lint' = lint

\* the extension host is looked at on its own
Apart == doc = NoDocument /\ page = NoPage /\ lint = NoText

\* the step from the current state to t, taken by handler op
Step(op, t) ==
    /\ ~t.overflow
    /\ cfg' = t.cfg
    /\ focused' = t.focused
    /\ env' = t.env
    /\ unreadable' = t.unreadable
    /\ currentPanel' = t.currentPanel
    /\ idleTimer' = t.idleTimer
    /\ codespacesKeepAliveTimer' = t.codespacesKeepAliveTimer
    /\ ignoreActivityUntil' = t.ignoreActivityUntil
    /\ sendingCodespacesKeepAlive' = t.sendingCodespacesKeepAlive
    /\ panels' = t.panels
    /\ timeouts' = t.timeouts
    /\ intervals' = t.intervals
    /\ calls' = t.calls
    /\ inbox' = t.inbox
    /\ disposed' = t.disposed
    /\ autoStartScopes' = t.autoStartScopes
    /\ settingsMigrationVersion' = t.settingsMigrationVersion
    /\ activation' = t.activation
    /\ sinceSelfAction' = IF SelfTriggered(op, Cur, t) THEN 0 ELSE sinceSelfAction
    /\ sinceHeartbeat' = IF Observed(op, Cur, t).started THEN 0 ELSE sinceHeartbeat
    /\ last' = [Observed(op, Cur, t) EXCEPT !.inWindow = InWindow,
                                            !.gap = sinceHeartbeat]
    /\ Elsewhere

Modes == {"beziers", "mystify", "flyingWindows", "random", "starfield", undefined}

DefaultSettings ==
    [mode |-> undefined, autoStart |-> TRUE, idleMinutes |-> Unset,
     codespacesKeepAlive |-> TRUE, codespacesKeepAliveIntervalMinutes |-> Unset,
     preventDisplaySleep |-> TRUE]

\* the values a user writes to the settings of the controller
SettingValues ==
    [mode |-> Modes,
     autoStart |-> BOOLEAN,
     idleMinutes |-> {Unset, Number(Num(1))},
     codespacesKeepAlive |-> BOOLEAN,
     codespacesKeepAliveIntervalMinutes |-> {Unset, Number(Num(1))},
     preventDisplaySleep |-> BOOLEAN]

NoEnvironment ==
    [CODESPACES |-> undefined, GITHUB_CODESPACES_PORT_FORWARDING_DOMAIN |-> undefined]

Environments ==
    [CODESPACES : {undefined, "true", "TRUE", "false"},
     GITHUB_CODESPACES_PORT_FORWARDING_DOMAIN : {undefined, "", "app.github.dev"}]

\* the variables of activate() before its last two statements, the stored
\* migration version being at the target
Fresh(settings, isFocused, environment, missing) ==
    [cfg |-> settings, focused |-> isFocused, env |-> environment, unreadable |-> missing,
     currentPanel |-> 0, idleTimer |-> 0, codespacesKeepAliveTimer |-> 0,
     ignoreActivityUntil |-> 0, sendingCodespacesKeepAlive |-> FALSE,
     panels |-> NoObjects, timeouts |-> NoObjects, intervals |-> NoObjects,
     calls |-> NoObjects, inbox |-> {}, disposed |-> FALSE,
     autoStartScopes |-> UserScope(settings.autoStart),
     settingsMigrationVersion |-> SETTINGS_MIGRATION_VERSION,
     activation |-> Migrated,
     thrown |-> FALSE, warned |-> FALSE, overflow |-> FALSE]

Activated(s) ==
    LET t == activate(s)
    IN  /\ cfg = t.cfg
        /\ focused = t.focused
        /\ env = t.env
        /\ unreadable = t.unreadable
        /\ currentPanel = t.currentPanel
        /\ idleTimer = t.idleTimer
        /\ codespacesKeepAliveTimer = t.codespacesKeepAliveTimer
        /\ ignoreActivityUntil = t.ignoreActivityUntil
        /\ sendingCodespacesKeepAlive = t.sendingCodespacesKeepAlive
        /\ panels = t.panels
        /\ timeouts = t.timeouts
        /\ intervals = t.intervals
        /\ calls = t.calls
        /\ inbox = t.inbox
        /\ disposed = t.disposed
        /\ autoStartScopes = t.autoStartScopes
        /\ settingsMigrationVersion = t.settingsMigrationVersion
        /\ activation = t.activation
        /\ sinceSelfAction = -1
        /\ sinceHeartbeat = IF Observed("activate", s, t).started THEN 0 ELSE -1
        /\ last = Observed("activate", s, t)

\* the animation assets that are missing from the installed extension
UnreadableAssets == {{}, {"mystify"}}

\* activation outside Codespaces
Init ==
    /\ \E isFocused \in BOOLEAN, autoStart \in BOOLEAN, missing \in UnreadableAssets :
        Activated(Fresh([DefaultSettings EXCEPT !.autoStart = autoStart],
                        isFocused, NoEnvironment, missing))
    /\ Apart

HostSignals ==
    {"onDidChangeActiveTextEditor", "onDidChangeVisibleTextEditors",
     "onDidChangeTextEditorSelection", "onDidChangeTextEditorVisibleRanges",
     "onDidChangeTextDocument"}

\* one of the five editor and document events fires
HostSignal ==
    /\ ~disposed
    /\ \E signal \in HostSignals : Step("hostSignal", handleUserActivity(Cur, FALSE))

\* the window gains or loses focus (or its state changes otherwise)
WindowStateChanged ==
    \E isFocused \in BOOLEAN :
        LET s == [Cur EXCEPT !.focused = isFocused]
        IN  Step("windowState", IF disposed THEN s ELSE handleUserActivity(s, FALSE))

ToggleCommand ==
    /\ ~disposed
    /\ \E pick \in ScreenSaverIds : Step("toggle", toggleScreenSaver(Cur, pick))

ShowCommand ==
    /\ ~disposed
    /\ \E id \in ScreenSaverIds, pick \in ScreenSaverIds :
           Step(ShowCommands[id], show(Cur, id, pick))

\* the user closes the tab of a panel
PanelClosed ==
    \E p \in DOMAIN panels : Step("panelClosed", panelDispose(Cur, p))

ActivityMessage == [shape |-> "object", type |-> WEBVIEW_ACTIVITY_MESSAGE_TYPE]

\* vscode.postMessage(message) in the document of panel p; posts counts the
\* messages the document loaded in p has posted
postMessage(s, p, message) ==
    [s EXCEPT !.panels[p].posts = Min(MaxPosts, @ + 1),
              !.inbox = @ \cup {[panel |-> p, message |-> message]}]

\* send() posting on every input
send_NoGuard(s, p) ==
    postMessage([s EXCEPT !.panels[p].sent = TRUE], p, ActivityMessage)

\* const send = () => { ... } of the bootstrap script in the document of panel p
send(s, p) ==
    IF s.panels[p].sent
    THEN s
    ELSE postMessage([s EXCEPT !.panels[p].sent = TRUE], p, ActivityMessage)

\* pointer, keyboard, wheel or touch input in the document of panel p
WebviewInput ==
    \E p \in DOMAIN panels :
        /\ panels[p].html # ""
        /\ Step("webviewInput", send(Cur, p))

\* the host delivers a posted message to the listener of the webview
MessageDelivered ==
    \E m \in inbox :
        LET s == [Cur EXCEPT !.inbox = @ \ {m}]
        IN  Step("message", IF disposed THEN s ELSE onDidReceiveMessage(s, m.message))

\* the values other than the activity message a document can post: values
\* that are no objects, and objects and arrays without the type of the
\* activity message
OtherMessages ==
    [shape : {"null", "undefined", "false", "true", "zero", "number",
              "emptyString", "string", "array"},
     type : {undefined}]
        \cup [shape : {"object"},
              type : {undefined, "otakScreensaver.useractivity", "userActivity"}]

\* a document posts a value other than the activity message and the host
\* delivers it to the listener; the listener stays subscribed when the panel
\* is gone
OtherMessage ==
    /\ ~disposed
    /\ DOMAIN panels # {} \/ sinceSelfAction >= 0
    /\ \E message \in OtherMessages :
           Step("otherMessage", onDidReceiveMessage(Cur, message))

\* the host drops a message of a panel that was disposed meanwhile
MessageDropped ==
    \E m \in inbox :
        /\ m.panel \notin DOMAIN panels
        /\ Step("messageDropped", [Cur EXCEPT !.inbox = @ \ {m}])

\* the store after the user wrote val to the setting key in the user settings
writeSetting(s, key, val) ==
    IF key = "autoStart"
    THEN configUpdate(s, "global", Json(val))
    ELSE [s EXCEPT !.cfg[key] = val]

\* the user writes a setting of the otakScreensaver namespace
ChangeConfiguration(key) ==
    \E val \in SettingValues[key] :
        /\ val # cfg[key]
        /\ LET s == writeSetting(Cur, key, val)
           IN  Step("configuration",
                    IF disposed THEN s ELSE onDidChangeConfiguration(s, TRUE))

\* the user writes a setting of another namespace
OtherConfigurationChanged ==
    /\ ~disposed
    /\ Step("otherConfiguration", onDidChangeConfiguration(Cur, FALSE))

\* the timeout h of setTimeout is due and its callback runs
IdleTimerFires ==
    \E h \in DOMAIN timeouts, pick \in ScreenSaverIds :
        /\ timeouts[h].left = 0
        /\ Step("idleTimer", idleTimerCallback(clearTimeout(Cur, h), pick))

\* the interval h of setInterval is due and its callback runs
IntervalFires ==
    \E h \in DOMAIN intervals :
        /\ intervals[h].left = 0
        /\ Step("interval",
                heartbeat([Cur EXCEPT !.intervals[h].left = intervals[h].period]))

\* an awaited step of a heartbeat settles, fulfilled or rejected
HeartbeatSettles ==
    \E c \in DOMAIN calls, ok \in BOOLEAN : Step("heartbeat", awaitSettles(Cur, c, ok))

Dispose ==
    /\ ~disposed
    /\ Step("dispose", disposeSubscriptions(Cur))

\* the instants at which something becomes due
Landmarks ==
    ({ignoreActivityUntil}
        \cup {timeouts[h].left : h \in DOMAIN timeouts}
        \cup {intervals[h].left : h \in DOMAIN intervals}) \ {0}

\* d ms pass
Tick ==
    \E d \in Landmarks :
        /\ \A h \in DOMAIN timeouts :
              \/ timeouts[h].left <= d
              \/ timeouts[h].delay - (timeouts[h].left - d)
                    <= MaxWindows * INTERNAL_ACTIVITY_IGNORE_MS
        /\ cfg' = cfg
        /\ focused' = focused
        /\ env' = env
        /\ unreadable' = unreadable
        /\ currentPanel' = currentPanel
        /\ idleTimer' = idleTimer
        /\ codespacesKeepAliveTimer' = codespacesKeepAliveTimer
        /\ sendingCodespacesKeepAlive' = sendingCodespacesKeepAlive
        /\ panels' = panels
        /\ calls' = calls
        /\ inbox' = inbox
        /\ disposed' = disposed
        /\ autoStartScopes' = autoStartScopes
        /\ settingsMigrationVersion' = settingsMigrationVersion
        /\ activation' = activation
        /\ ignoreActivityUntil' = Max(0, ignoreActivityUntil - d)
        /\ timeouts' = [h \in DOMAIN timeouts |->
                            [left |-> Max(0, timeouts[h].left - d),
                             delay |-> timeouts[h].delay,
                             age |-> Min(timeouts[h].delay, timeouts[h].age + d)]]
        /\ intervals' = [h \in DOMAIN intervals |->
                            [left |-> Max(0, intervals[h].left - d),
                             period |-> intervals[h].period]]
        /\ sinceSelfAction' = IF sinceSelfAction < 0
                              THEN sinceSelfAction
                              ELSE Min(INTERNAL_ACTIVITY_IGNORE_MS, sinceSelfAction + d)
        /\ sinceHeartbeat' = IF sinceHeartbeat < 0
                             THEN sinceHeartbeat
                             ELSE Min(MS_PER_MINUTE, sinceHeartbeat + d)
        /\ last' = [Observed("tick", Cur, Cur) EXCEPT !.inWindow = InWindow,
                                                      !.gap = sinceHeartbeat]
        /\ Elsewhere

Next ==
    \/ HostSignal
    \/ WindowStateChanged
    \/ ToggleCommand
    \/ ShowCommand
    \/ PanelClosed
    \/ WebviewInput
    \/ MessageDelivered
    \/ MessageDropped
    \/ OtherMessage
    \/ ChangeConfiguration("mode")
    \/ ChangeConfiguration("autoStart")
    \/ ChangeConfiguration("idleMinutes")
    \/ OtherConfigurationChanged
    \/ IdleTimerFires
    \/ Dispose
    \/ Tick

Spec == Init /\ [][Next]_vars

----------------------------------------------------------------------------
(* The keep-alive next to the idle countdown: activation in any environment,
   with auto start on or off *)

KeepAliveInit ==
    /\ \E environment \in Environments, keepAlive \in BOOLEAN, autoStart \in BOOLEAN :
        Activated(Fresh([DefaultSettings EXCEPT !.autoStart = autoStart,
                                                !.codespacesKeepAlive = keepAlive],
                        TRUE, environment, {}))
    /\ Apart

KeepAliveNext ==
    \/ ChangeConfiguration("codespacesKeepAlive")
    \/ ChangeConfiguration("codespacesKeepAliveIntervalMinutes")
    \/ ChangeConfiguration("mode")
    \/ IdleTimerFires
    \/ IntervalFires
    \/ HeartbeatSettles
    \/ Dispose
    \/ Tick

KeepAliveSpec == KeepAliveInit /\ [][KeepAliveNext]_vars

----------------------------------------------------------------------------
(* The numeric settings: activation in Codespaces with auto start and the
   keep-alive on, and the user writing any JSON value to the two settings *)

\* the values settings.json can hold for a numeric setting: no value, null, a
\* string, a boolean, and numbers (in thousandths) below, at and above 0 and 1
StoredNumbers ==
    {Unset, Null, AString, ABoolean, NotANumber, Infinity, NegInfinity}
        \cup {Number(n) : n \in {-Num(1), -1, 0, 1, Num(1) \div 2, Num(1),
                                 Num(3) \div 2, Num(3), Num(5), Num(MaxMinutes)}}

InCodespaces ==
    [CODESPACES |-> "true", GITHUB_CODESPACES_PORT_FORWARDING_DOMAIN |-> undefined]

SettingsInit ==
    /\ Activated(Fresh(DefaultSettings, TRUE, InCodespaces, {}))
    /\ Apart

\* the user writes a value to a numeric setting of the namespace
ChangeNumericSetting(key) ==
    /\ ~disposed
    /\ \E val \in StoredNumbers :
        /\ val # cfg[key]
        /\ Step("configuration",
                onDidChangeConfiguration([Cur EXCEPT !.cfg[key] = val], TRUE))

SettingsNext ==
    \/ ChangeNumericSetting("idleMinutes")
    \/ ChangeNumericSetting("codespacesKeepAliveIntervalMinutes")
    \/ HeartbeatSettles

SettingsSpec == SettingsInit /\ [][SettingsNext]_vars

----------------------------------------------------------------------------
(* The migration of the settings: the extension host starts the extension
   with any stored version and autoStart set in any of the scopes, the user
   edits autoStart in any scope at any time, and the host starts over *)

StoredBooleans == {undefined, "true", "false"}

\* a new extension host calls activate(): the variables of the closure are
\* new, the settings and the global state are those stored
Launched(settings, scopes, version, isFocused, environment, missing) ==
    [Fresh(settings, isFocused, environment, missing)
        EXCEPT !.cfg.autoStart = Effective(scopes),
               !.autoStartScopes = scopes,
               !.settingsMigrationVersion = version,
               !.activation.pc = "migrateSettings"]

MigrationInit ==
    \E scopes \in [ScopeNames -> StoredBooleans], version \in 0..SETTINGS_MIGRATION_VERSION :
        LET s == Launched(DefaultSettings, scopes, version, TRUE, NoEnvironment, {})
        IN  /\ cfg = s.cfg
            /\ focused = s.focused
            /\ env = s.env
            /\ unreadable = s.unreadable
            /\ currentPanel = s.currentPanel
            /\ idleTimer = s.idleTimer
            /\ codespacesKeepAliveTimer = s.codespacesKeepAliveTimer
            /\ ignoreActivityUntil = s.ignoreActivityUntil
            /\ sendingCodespacesKeepAlive = s.sendingCodespacesKeepAlive
            /\ panels = s.panels
            /\ timeouts = s.timeouts
            /\ intervals = s.intervals
            /\ calls = s.calls
            /\ inbox = s.inbox
            /\ disposed = s.disposed
            /\ autoStartScopes = s.autoStartScopes
            /\ settingsMigrationVersion = s.settingsMigrationVersion
            /\ activation = s.activation
            /\ sinceSelfAction = -1
            /\ sinceHeartbeat = -1
            /\ last = Observed("launch", s, s)
            /\ Apart

MigrateSettings ==
    /\ activation.pc = "migrateSettings"
    /\ Step("migrateSettings", migrateSettings(Cur))

ConfigUpdateSettles ==
    /\ activation.pc = "update"
    /\ \E ok \in BOOLEAN : Step("configUpdate", configUpdateSettled(Cur, ok))

GlobalStateUpdateSettles ==
    /\ activation.pc = "advance"
    /\ \E ok \in BOOLEAN : Step("globalStateUpdate", globalStateUpdateSettled(Cur, ok))

ActivateContinues ==
    /\ activation.pc = "activate"
    /\ Step("activate", activateAfterMigration(Cur))

\* the user sets, changes or removes autoStart in one scope
UserWritesAutoStart ==
    \E sc \in ScopeNames, val \in StoredBooleans :
        /\ val # autoStartScopes[sc]
        /\ LET s == configUpdate(Cur, sc, val)
           IN  Step("configuration",
                    IF activation.pc = "active" /\ ~disposed
                    THEN onDidChangeConfiguration(s, TRUE)
                    ELSE s)

\* the extension host ends and a new one activates the extension
Relaunch ==
    /\ activation.pc # "migrateSettings"
    /\ Step("launch", Launched(cfg, autoStartScopes, settingsMigrationVersion,
                            focused, env, unreadable))

MigrationNext ==
    \/ MigrateSettings
    \/ ConfigUpdateSettles
    \/ GlobalStateUpdateSettles
    \/ ActivateContinues
    \/ UserWritesAutoStart
    \/ Relaunch

MigrationSpec == MigrationInit /\ [][MigrationNext]_vars

----------------------------------------------------------------------------
(* The wake lock of the displayed document: the bootstrap script that
   getWebviewHtml appends, run in a document of the webview.  The platform
   grants or refuses a request while the document is visible and refuses it
   while hidden, releases a lock when release() is called on it unless the
   call fails, and releases every lock of a document that becomes hidden.
   A request or a release settles at any later moment. *)

\* the variables of the extension host
host == <<cfg, focused, env, unreadable, currentPanel, idleTimer,
          codespacesKeepAliveTimer, ignoreActivityUntil,
          sendingCodespacesKeepAlive, panels, timeouts, intervals, calls,
          inbox, disposed, autoStartScopes, settingsMigrationVersion,
          activation, sinceSelfAction, sinceHeartbeat, last>>

\* the wake locks the document holds
Held(d) == {id \in DOMAIN d.sentinels : ~d.sentinels[id].released}

\* wakeLock.addEventListener('release', () => { wakeLock = null; })
onRelease(d) == [d EXCEPT !.wakeLock = 0]

\* the platform releases lock id: released becomes true, the event fires
platformRelease(d, id) ==
    IF d.sentinels[id].released
    THEN d
    ELSE onRelease([d EXCEPT !.sentinels[id].released = TRUE])

RECURSIVE platformReleaseAll(_, _)
platformReleaseAll(d, ids) ==
    IF ids = {}
    THEN d
    ELSE LET id == CHOOSE x \in ids : TRUE
         IN  platformReleaseAll(platformRelease(d, id), ids \ {id})

\* const requestWakeLock = async () => { ... }, up to its await
requestWakeLock(d) ==
    IF ~d.preventDisplaySleep THEN d
    ELSE IF ~d.hasWakeLock THEN d
    ELSE IF d.visibilityState # "visible" THEN d
    ELSE IF d.wakeLock # 0 /\ ~d.sentinels[d.wakeLock].released THEN d
    ELSE IF d.requests >= MaxRequests THEN [d EXCEPT !.overflow = TRUE]
    ELSE [d EXCEPT !.requests = @ + 1, !.called = TRUE]

\* the rest of requestWakeLock once navigator.wakeLock.request('screen')
\* settled: the lock is stored and listened to, or the failure is logged
requestSettled(d, ok) ==
    IF ~ok
    THEN [d EXCEPT !.requests = @ - 1, !.caught = TRUE]
    ELSE LET id == FreshId(DOMAIN d.sentinels, MaxSentinels)
         IN  IF id = 0
             THEN [d EXCEPT !.overflow = TRUE]
             ELSE [d EXCEPT !.requests = @ - 1,
                            !.sentinels = Put(@, id, [released |-> FALSE]),
                            !.wakeLock = id]

\* const releaseWakeLock = async () => { ... }, up to its await; ok: the
\* platform releases the lock, otherwise release() is going to reject
releaseWakeLock(d, ok) ==
    IF d.wakeLock = 0 THEN d
    ELSE IF Len(d.releases) >= MaxReleases THEN [d EXCEPT !.overflow = TRUE]
    ELSE LET id == d.wakeLock
             d1 == [d EXCEPT !.releases = Append(@, [ok |-> ok])]
         IN  IF ok
             THEN platformRelease(d1, id)
             ELSE [d1 EXCEPT !.failedRelease = TRUE]

\* the rest of releaseWakeLock with no catch
releaseSettled_NoCatch(d, i) ==
    [d EXCEPT !.releases = SubSeq(@, 1, i - 1) \o SubSeq(@, i + 1, Len(@)),
              !.thrown = ~d.releases[i].ok,
              !.caught = ~d.releases[i].ok,
              !.wakeLock = 0]

\* the rest of releaseWakeLock once the i-th pending release() settled:
\* catch, finally
releaseSettled(d, i) ==
    [d EXCEPT !.releases = SubSeq(@, 1, i - 1) \o SubSeq(@, i + 1, Len(@)),
              !.caught = ~d.releases[i].ok,
              !.wakeLock = 0]

\* document.addEventListener('visibilitychange', () => { ... })
onVisibilityChange(d, ok) ==
    IF d.visibilityState = "visible"
    THEN requestWakeLock(d)
    ELSE releaseWakeLock(d, ok)

\* the bootstrap script runs in a new document: void requestWakeLock()
bootstrap(preventDisplaySleep, hasWakeLock, visibilityState, hasFocus) ==
    requestWakeLock([op |-> "load",
                     preventDisplaySleep |-> preventDisplaySleep,
                     hasWakeLock |-> hasWakeLock,
                     visibilityState |-> visibilityState,
                     hasFocus |-> hasFocus,
                     wakeLock |-> 0,
                     sentinels |-> NoObjects,
                     requests |-> 0,
                     releases |-> <<>>,
                     called |-> FALSE,
                     caught |-> FALSE,
                     thrown |-> FALSE,
                     failedRelease |-> FALSE,
                     overflow |-> FALSE])

\* a lock that is released and that nothing refers to is forgotten
collect(d) ==
    [d EXCEPT !.sentinels =
        [id \in {x \in DOMAIN d.sentinels : ~d.sentinels[x].released \/ x = d.wakeLock}
            |-> d.sentinels[id]]]

\* the document as an event or a completion op finds it
Before(op) == [doc EXCEPT !.op = op, !.called = FALSE, !.caught = FALSE, !.thrown = FALSE]

\* the document takes the step to d
DocStep(d) ==
    /\ ~d.overflow
    /\ doc' = collect(d)
    /\ UNCHANGED <<host, page, lint>>

WakeLockInit ==
    /\ \E enabled \in BOOLEAN :
          /\ Activated(Fresh([DefaultSettings EXCEPT !.preventDisplaySleep = enabled],
                             TRUE, NoEnvironment, {}))
          /\ \E hasWakeLock \in BOOLEAN, visibilityState \in {"visible", "hidden"},
                 hasFocus \in BOOLEAN :
                doc = bootstrap(getPreventDisplaySleepEnabled([cfg |-> cfg]), hasWakeLock,
                                visibilityState, hasFocus)
    /\ page = NoPage
    /\ lint = NoText

\* window 'focus'
Focus ==
    /\ ~doc.hasFocus
    /\ DocStep(requestWakeLock([Before("focus") EXCEPT !.hasFocus = TRUE]))

\* window 'blur'
Blur ==
    /\ doc.hasFocus
    /\ \E ok \in BOOLEAN :
          DocStep(releaseWakeLock([Before("blur") EXCEPT !.hasFocus = FALSE], ok))

\* window 'beforeunload', with the unload cancelled
BeforeUnload ==
    \E ok \in BOOLEAN : DocStep(releaseWakeLock(Before("beforeunload"), ok))

\* the document is hidden, and the platform releases its locks, or it is shown
VisibilityChange ==
    \E ok \in BOOLEAN :
        IF doc.visibilityState = "visible"
        THEN LET d == platformReleaseAll([Before("visibilitychange")
                                             EXCEPT !.visibilityState = "hidden"],
                                         Held(doc))
             IN  DocStep(onVisibilityChange(d, ok))
        ELSE DocStep(onVisibilityChange([Before("visibilitychange")
                                            EXCEPT !.visibilityState = "visible"], ok))

\* a pending navigator.wakeLock.request settles
RequestSettles ==
    /\ doc.requests > 0
    /\ \E ok \in BOOLEAN :
          /\ ok => doc.visibilityState = "visible"
          /\ DocStep(requestSettled(Before("requestSettled"), ok))

\* a pending release() settles
ReleaseSettles ==
    \E i \in 1..Len(doc.releases) : DocStep(releaseSettled(Before("releaseSettled"), i))

WakeLockNext ==
    \/ Focus
    \/ Blur
    \/ BeforeUnload
    \/ VisibilityChange
    \/ RequestSettles
    \/ ReleaseSettles

WakeLockSpec == WakeLockInit /\ [][WakeLockNext]_vars

----------------------------------------------------------------------------
(* getWebviewHtml: an animation asset is a sequence of tags and runs of
   text; a tag is kept with its source text, and with the nonce attribute
   getWebviewHtml puts in front of its attributes. *)

\* const possible = 'ABC...XYZabc...xyz0123456789', character by character
possible ==
    <<"A", "B", "C", "D", "E", "F", "G", "H", "I", "J", "K", "L", "M",
      "N", "O", "P", "Q", "R", "S", "T", "U", "V", "W", "X", "Y", "Z",
      "a", "b", "c", "d", "e", "f", "g", "h", "i", "j", "k", "l", "m",
      "n", "o", "p", "q", "r", "s", "t", "u", "v", "w", "x", "y", "z",
      "0", "1", "2", "3", "4",
      "5", "6", "7", "8", "9">>

\* the number of characters getNonce draws
NONCE_LENGTH == 32

\* sequences of values of Math.random(), in thousandths
Randoms ==
    {[i \in 1..NONCE_LENGTH |-> (a + b * i) % 1000] : a \in {0, 500, 999}, b \in {0, 37}}

\* getNonce(), with random[i] the value Math.random() returns in round i
getNonce(random) ==
    [i \in 1..NONCE_LENGTH |-> possible[((random[i] * Len(possible)) \div 1000) + 1]]

\* a tag or a run of text of an asset
Token(kind, src) == [kind |-> kind, src |-> src, nonce |-> <<>>]

\* what the assets are made of: text, the placeholder, head tags, script
\* tags with their attributes, closing body tags
AssetTokens ==
    {Token("text", "text"),
     Token("placeholder", "{{screensaversUri}}"),
     Token("head", "<head>"),
     Token("head", "<HEAD>"),
     Token("head", "<head lang=\"en\">"),
     Token("script", ""),
     Token("script", " src=\"main.js\""),
     Token("script", " nonce=\"abc\""),
     Token("script", " data-nonce=\"abc\""),
     Token("endbody", "</body>"),
     Token("endbody", "</BODY>")}

Assets == UNION {[1..n -> AssetTokens] : n \in 0..MaxTokens}

\* /<head>/i
headRe(tok) == tok.kind = "head" /\ tok.src \in {"<head>", "<HEAD>"}

\* /<script(?![^>]*\bnonce=)([^>]*)>/gi
scriptRe(tok) ==
    /\ tok.kind = "script"
    /\ tok.nonce = <<>>
    /\ tok.src \notin {" nonce=\"abc\"", " data-nonce=\"abc\""}

\* /<\/body>/i
bodyRe(tok) == tok.kind = "endbody"

\* the first of the places where a regular expression matches, 0 without one
firstMatch(matches) ==
    IF matches = {} THEN 0 ELSE CHOOSE i \in matches : \A j \in matches : i <= j

\* html with the token at place i replaced by the tokens toks
splice(html, i, toks) == SubSeq(html, 1, i - 1) \o toks \o SubSeq(html, i + 1, Len(html))

\* html.replace(/\{\{screensaversUri\}\}/g, screensaversUri.toString())
replacePlaceholders(html) ==
    [i \in DOMAIN html |-> IF html[i].kind = "placeholder"
                           THEN Token("text", "screensaversUri")
                           ELSE html[i]]

\* the meta tag of the policy: default-src 'none'; img-src and style-src of
\* the webview; script-src 'nonce-<nonce>'
policy(nonce) == [kind |-> "meta", src |-> "Content-Security-Policy", nonce |-> nonce]

\* html.replace(/<head>/i, ...): the meta tag follows the first <head>
injectPolicy(html, nonce) ==
    LET i == firstMatch({k \in DOMAIN html : headRe(html[k])})
    IN  IF i = 0 THEN html ELSE splice(html, i, <<html[i], policy(nonce)>>)

\* the replacement of the script tags without the g flag: the first match only
tagScripts_FirstOnly(html, nonce) ==
    LET i == firstMatch({k \in DOMAIN html : scriptRe(html[k])})
    IN  IF i = 0 THEN html ELSE [html EXCEPT ![i].nonce = nonce]

\* html.replace(/<script(?![^>]*\bnonce=)([^>]*)>/gi, ...): nonce="${nonce}"
\* goes in front of the attributes of every match
tagScripts(html, nonce) ==
    [i \in DOMAIN html |-> IF scriptRe(html[i])
                           THEN [html[i] EXCEPT !.nonce = nonce]
                           ELSE html[i]]

\* const exitOnActivityScript: <script nonce="${nonce}">...</script>
exitOnActivityScript(nonce, preventDisplaySleep) ==
    [kind |-> "script",
     src |-> IF preventDisplaySleep
             THEN "exitOnActivityScript: preventDisplaySleep = true"
             ELSE "exitOnActivityScript: preventDisplaySleep = false",
     nonce |-> nonce]

\* the script put in front of the first closing body tag, or at the end
appendBootstrap(html, script) ==
    LET i == firstMatch({k \in DOMAIN html : bodyRe(html[k])})
    IN  IF i # 0 THEN splice(html, i, <<script, html[i]>>) ELSE Append(html, script)

getWebviewHtml(asset, preventDisplaySleep, random) ==
    LET nonce == getNonce(random)
        html1 == replacePlaceholders(asset)
        html2 == injectPolicy(html1, nonce)
        html3 == tagScripts(html2, nonce)
        html4 == appendBootstrap(html3, exitOnActivityScript(nonce, preventDisplaySleep))
    IN  [pc |-> "loaded", asset |-> asset, html |-> html4, nonce |-> nonce]

WebviewHtmlInit ==
    /\ \E enabled \in BOOLEAN :
          Activated(Fresh([DefaultSettings EXCEPT !.preventDisplaySleep = enabled],
                          TRUE, NoEnvironment, {}))
    /\ doc = NoDocument
    /\ lint = NoText
    /\ \E asset \in Assets :
          page = [pc |-> "asset", asset |-> asset, html |-> asset, nonce |-> <<>>]

\* show() loads the asset into the panel, for the first time or again
LoadAsset ==
    /\ \E random \in Randoms :
          page' = getWebviewHtml(page.asset, getPreventDisplaySleepEnabled([cfg |-> cfg]),
                                 random)
    /\ UNCHANGED <<host, doc, lint>>

WebviewHtmlNext == LoadAsset

WebviewHtmlSpec == WebviewHtmlInit /\ [][WebviewHtmlNext]_vars

----------------------------------------------------------------------------
(* The Markdown scan of scripts/jp-colon-lint.js.  A line is a sequence of
   characters; a character of a class the script tells apart stands for
   itself (dash, colon, space), "backtick" and "tilde" for these two,
   "fullwidth colon" for the
   '\uFF1A' of the script and "hiragana", "katakana", "kanji" for a
   character of these ranges, "iteration mark" and "long vowel mark" for
   the two single characters of the expression; "a" is any other
   character. *)

\* /[\u3041-\u3093\u30A1-\u30F6\u4E00-\u9FA0\u3005\u30FC]/: the characters it matches
JAPANESE_CHAR_RE ==
    {"hiragana", "katakana", "kanji", "iteration mark", "long vowel mark"}

\* the characters String.prototype.trim and \s take for white space
WhiteSpace == {" ", "\t"}

trimEnd(line) ==
    LET kept == {i \in DOMAIN line : line[i] \notin WhiteSpace}
    IN  IF kept = {} THEN <<>>
        ELSE SubSeq(line, 1, CHOOSE i \in kept : \A j \in kept : j <= i)

trimStart(line) ==
    LET kept == {i \in DOMAIN line : line[i] \notin WhiteSpace}
    IN  IF kept = {} THEN <<>>
        ELSE SubSeq(line, CHOOSE i \in kept : \A j \in kept : i <= j, Len(line))

trim(line) == trimStart(trimEnd(line))

\* /[\uFF1A:]\s*$/.test(line)
TRAILING_COLON_RE(line) ==
    \E i \in DOMAIN line :
        /\ line[i] \in {":", "fullwidth colon"}
        /\ \A j \in (i + 1)..Len(line) : line[j] \in WhiteSpace

isJapaneseTextLineEndingWithColon(line) ==
    LET trimmedEnd == trimEnd(line)
    IN  /\ \E i \in DOMAIN trimmedEnd : trimmedEnd[i] \in JAPANESE_CHAR_RE
        /\ TRAILING_COLON_RE(trimmedEnd)

\* line.match(...) with the expression for white space, then three or more
\* backticks or three or more tildes: the first character of the marker, ""
\* without a match
fenceMatch(line) ==
    LET rest == trimStart(line)
    IN  IF Len(rest) >= 3 /\ rest[1] \in {"backtick", "tilde"} /\ rest[2] = rest[1] /\ rest[3] = rest[1]
        THEN rest[1]
        ELSE ""

\* a fence line that closes the block whatever its marker is
toggleFence_AnyMarkerCloses(st, markerChar) ==
    IF ~st.inFence
    THEN [st EXCEPT !.inFence = TRUE, !.fenceChar = markerChar]
    ELSE [st EXCEPT !.inFence = FALSE, !.fenceChar = ""]

\* scanMarkdown at a fence line: the block opens, closes or goes on
toggleFence(st, markerChar) ==
    IF ~st.inFence
    THEN [st EXCEPT !.inFence = TRUE, !.fenceChar = markerChar]
    ELSE IF st.fenceChar = markerChar
    THEN [st EXCEPT !.inFence = FALSE, !.fenceChar = ""]
    ELSE st

\* the loop of scanMarkdown from line i on (the first line is line 1)
RECURSIVE scanLines(_, _, _)
scanLines(lines, i, st) ==
    IF i > Len(lines) THEN st.issues
    ELSE LET line == lines[i]
             markerChar == fenceMatch(line)
         IN  IF st.inFrontmatter
             THEN scanLines(lines, i + 1,
                            IF i # 1 /\ trim(line) = <<"-", "-", "-">>
                            THEN [st EXCEPT !.inFrontmatter = FALSE]
                            ELSE st)
             ELSE IF markerChar # ""
             THEN scanLines(lines, i + 1, toggleFence(st, markerChar))
             ELSE IF st.inFence
             THEN scanLines(lines, i + 1, st)
             ELSE IF isJapaneseTextLineEndingWithColon(line)
             THEN scanLines(lines, i + 1,
                            [st EXCEPT !.issues =
                                Append(@, [line |-> i,
                                           col |-> Max(1, Len(trimEnd(line)))])])
             ELSE scanLines(lines, i + 1, st)

\* scanMarkdown(filePath, text), with lines the text split at its newlines
scanMarkdown(lines) ==
    scanLines(lines, 1,
              [inFrontmatter |-> Len(lines) > 0 /\ trim(lines[1]) = <<"-", "-", "-">>,
               inFence |-> FALSE,
               fenceChar |-> "",
               issues |-> <<>>])

\* the lines the texts are made of
TextLines ==
    {<<"-", "-", "-", " ">>,
     <<"backtick", "backtick", "backtick">>,
     <<" ", "tilde", "tilde", "tilde", "tilde">>,
     <<"backtick", "backtick", "backtick", "kanji", "fullwidth colon">>,
     <<"backtick", "backtick", "kanji", ":">>,
     <<"kanji", "fullwidth colon">>,
     <<"hiragana", ":", " ">>,
     <<"a", ":">>,
     <<"katakana">>,
     <<>>}

Texts == UNION {[1..n -> TextLines] : n \in 1..MaxLines}

LintInit ==
    /\ Activated(Fresh(DefaultSettings, TRUE, NoEnvironment, {}))
    /\ doc = NoDocument
    /\ page = NoPage
    /\ \E lines \in Texts : lint = [pc |-> "read", lines |-> lines, issues |-> <<>>]

\* main() scans a Markdown file it has read
ScanMarkdown ==
    /\ lint.pc = "read"
    /\ lint' = [pc |-> "scanned", lines |-> lint.lines, issues |-> scanMarkdown(lint.lines)]
    /\ UNCHANGED <<host, doc, page>>

LintNext == ScanMarkdown

LintSpec == LintInit /\ [][LintNext]_vars

----------------------------------------------------------------------------
(* What the claims speak of *)

PanelShown == currentPanel # 0

\* auto start enabled, window focused, no panel shown
Eligible == cfg.autoStart /\ focused /\ currentPanel = 0

\* the animations the configured mode stands for: its own, or any of the three
\* for random and for an invalid mode
ConfiguredIds == IF cfg.mode \in ScreenSaverIds THEN {cfg.mode} ELSE ScreenSaverIds

\* the panel the step opened shows the configured mode: it has the title of
\* that animation and the content of its asset (no content where the asset
\* cannot be read and show() throws)
ShowsConfiguredMode ==
    \E id \in ConfiguredIds :
        /\ panels'[currentPanel'].title = SCREENSAVERS[id].title
        /\ panels'[currentPanel'].html =
              IF id \in unreadable THEN "" ELSE SCREENSAVERS[id].filename
        /\ last'.threw = (id \in unreadable)

\* the configured idle duration D in ms: the idleMinutes setting where it is a
\* finite number > 0, and the default of 5 minutes otherwise
IdleDuration ==
    IF cfg.idleMinutes.t = "number" /\ cfg.idleMinutes.n > 0
    THEN (cfg.idleMinutes.n * 60000) \div 1000
    ELSE 5 * 60000

\* the step opens a panel where there was none
OpensPanel ==
    /\ currentPanel = 0
    /\ currentPanel' # 0
    /\ DOMAIN panels' = DOMAIN panels \cup {currentPanel'}
    /\ currentPanel' \notin DOMAIN panels

\* the step leaves the idle timer as the re-arm rule does: a fresh countdown
\* when auto start is enabled, the window focused and no panel shown, and no
\* pending timer otherwise
Rearmed ==
    IF cfg'.autoStart /\ focused' /\ currentPanel' = 0
    THEN /\ idleTimer' # 0
         /\ DOMAIN timeouts' = {idleTimer'}
         /\ timeouts'[idleTimer'].age = 0
         /\ timeouts'[idleTimer'].left = timeouts'[idleTimer'].delay
    ELSE /\ idleTimer' = 0
         /\ DOMAIN timeouts' = {}

\* C1: when the idle timer fires, a panel is opened only if auto start is
\* enabled, the window is focused and no panel is shown at that moment, and then
\* it shows the mode configured at that moment; otherwise nothing is opened,
\* nothing is thrown and the timer is left disarmed.
C1_TimerFireRevalidates ==
    [][last'.op = "idleTimer" =>
          IF Eligible
          THEN /\ OpensPanel
               /\ ShowsConfiguredMode
          ELSE /\ panels' = panels
               /\ currentPanel' = currentPanel
               /\ ~last'.threw
               /\ idleTimer' = 0
               /\ DOMAIN timeouts' \subseteq DOMAIN timeouts]_vars

\* the timer fired while the window had lost focus, and nothing was opened
C1_Witness ==
    /\ last.op = "idleTimer"
    /\ cfg.autoStart
    /\ ~focused
    /\ ~last.hadPanel
    /\ currentPanel = 0

\* C2: a countdown armed at t lasts at least the idle duration D, a
\* timer-triggered display appears only when the time since t has reached the
\* armed delay, and a timer that fires with the three conditions holding shows
\* a panel.
C2_NoDisplayBeforeIdleDuration ==
    [][/\ (last'.op # "tick" /\ timeouts' # timeouts /\ idleTimer' # 0
             /\ idleTimer' \in DOMAIN timeouts')
          => /\ timeouts'[idleTimer'].delay >= IdleDuration'
             /\ timeouts'[idleTimer'].left = timeouts'[idleTimer'].delay
             /\ timeouts'[idleTimer'].age = 0
       /\ (last'.op = "idleTimer" /\ panels' # panels)
          => \E h \in DOMAIN timeouts \ DOMAIN timeouts' :
                 timeouts[h].age >= timeouts[h].delay
       /\ (last'.op = "idleTimer" /\ Eligible) => currentPanel' # 0]_vars

\* the timer fired and opened the panel
C2_Witness ==
    /\ last.op = "idleTimer"
    /\ ~last.hadPanel
    /\ currentPanel # 0
    /\ sinceSelfAction = 0

\* the step changes neither the panel nor the idle timer
Discarded ==
    /\ panels' = panels
    /\ currentPanel' = currentPanel
    /\ timeouts' = timeouts
    /\ idleTimer' = idleTimer

\* the step stops the panel when one is shown and restarts the idle timer
\* otherwise
StopsOrRestarts ==
    IF currentPanel # 0
    THEN /\ currentPanel' = 0
         /\ DOMAIN panels' = DOMAIN panels \ {currentPanel}
    ELSE /\ panels' = panels
         /\ currentPanel' = currentPanel
         /\ Rearmed

\* C3 as claimed: every activity event, the activity message of the displayed
\* content included, is discarded before T + 500 ms and handled from then on.
C3_EveryActivityEventSuppressed ==
    [][(last'.op \in {"hostSignal", "windowState", "message"} /\ ~disposed)
          => IF InWindow THEN Discarded ELSE StopsOrRestarts]_vars

\* C3, amended: every host activity signal (the six host events) is discarded
\* before T + 500 ms and from T + 500 ms on stops the panel when one is shown
\* and restarts the idle timer otherwise.
C3_HostSignalSuppressed ==
    [][(last'.op \in {"hostSignal", "windowState"} /\ ~disposed)
          => IF InWindow THEN Discarded ELSE StopsOrRestarts]_vars

\* a host signal was discarded inside the window while the panel was shown
C3_Witness ==
    /\ last.op = "hostSignal"
    /\ last.inWindow
    /\ last.hadPanel
    /\ currentPanel # 0

\* C4: the activity message of the displayed content stops the panel when one
\* is shown, inside the ignore window too, and re-runs the re-arm rule when no
\* panel is shown.
C4_ActivityMessageBypassesWindow ==
    [][(last'.op = "message" /\ ~disposed
          /\ \E m \in inbox \ inbox' : m.message = ActivityMessage)
          => IF currentPanel # 0
             THEN /\ currentPanel' = 0
                  /\ DOMAIN panels' = DOMAIN panels \ {currentPanel}
                  /\ Rearmed
             ELSE /\ panels' = panels
                  /\ currentPanel' = currentPanel
                  /\ Rearmed]_vars

\* the message arrived inside the window and stopped the panel
C4_Witness ==
    /\ last.op = "message"
    /\ last.inWindow
    /\ last.hadPanel
    /\ ~disposed
    /\ currentPanel = 0

\* C5: the toggle command stops the panel when one is shown and shows the
\* configured mode when none is, whatever the ignore window.
C5_ToggleStopsOrShows ==
    [][last'.op = "toggle" =>
          IF currentPanel # 0
          THEN /\ currentPanel' = 0
               /\ DOMAIN panels' = {}
          ELSE /\ OpensPanel
               /\ DOMAIN panels' = {currentPanel'}
               /\ ShowsConfiguredMode]_vars

\* the toggle stopped the panel inside the ignore window
C5_Witness ==
    /\ last.op = "toggle"
    /\ last.inWindow
    /\ last.hadPanel
    /\ currentPanel = 0

\* C6: at most one panel exists, one exists exactly when currentPanel is set,
\* and show() with a panel present keeps that panel.
C6_SinglePanel ==
    /\ [](/\ Cardinality(DOMAIN panels) <= 1
          /\ (currentPanel # 0 <=> DOMAIN panels # {})
          /\ (currentPanel # 0 => currentPanel \in DOMAIN panels))
    /\ [][(last'.op \in ShowCommandNames /\ currentPanel # 0)
             => /\ currentPanel' = currentPanel
                /\ DOMAIN panels' = DOMAIN panels]_vars

\* a show command found the panel present and kept it
C6_Witness ==
    /\ last.op \in ShowCommandNames
    /\ last.hadPanel
    /\ DOMAIN panels = {currentPanel}

\* C7: from every state with auto start enabled, the window focused and no
\* panel shown, a panel is eventually shown unless a further event occurs.
\* Only the callback of a pending timeout shows a panel without a further
\* event, so the claim is that in every such state a countdown is pending.
C7_LaunchesAfterInactivity ==
    (Eligible /\ ~disposed) => DOMAIN timeouts # {}

\* C8: right after the subscriptions are disposed no idle timer is pending, no
\* keep-alive interval is running and no panel exists.
C8_DisposeReleasesEverything ==
    last.op = "dispose" =>
        /\ idleTimer = 0
        /\ DOMAIN timeouts = {}
        /\ codespacesKeepAliveTimer = 0
        /\ DOMAIN intervals = {}
        /\ currentPanel = 0
        /\ DOMAIN panels = {}

\* the environment is detected as Codespaces and the keep-alive is enabled
KeepAliveWanted ==
    /\ \/ env.CODESPACES \in {"true", "TRUE", "True"}
       \/ env.GITHUB_CODESPACES_PORT_FORWARDING_DOMAIN \notin {undefined, ""}
    /\ cfg.codespacesKeepAlive

\* C9: at most one heartbeat is in flight, and a tick or a restart that finds
\* one in flight starts none.
C9_OneHeartbeatInFlight ==
    /\ [](Cardinality(DOMAIN calls) <= 1)
    /\ [][(last'.op \in {"interval", "configuration"} /\ DOMAIN calls # {})
             => calls' = calls]_vars

\* an interval tick found the previous heartbeat in flight and started none
C9_Witness ==
    /\ last.op = "interval"
    /\ ~last.started
    /\ DOMAIN calls # {}
    /\ sendingCodespacesKeepAlive

\* C10: an interval runs and a heartbeat starts only in Codespaces with the
\* keep-alive enabled; a restart leaves at most the one interval it set, and
\* none when either condition is false.
C10_KeepAliveOnlyWhenWanted ==
    /\ (DOMAIN intervals # {} => KeepAliveWanted)
    /\ (last.started => KeepAliveWanted)
    /\ Cardinality(DOMAIN intervals) <= 1
    /\ (codespacesKeepAliveTimer # 0 <=> DOMAIN intervals # {})
    /\ (codespacesKeepAliveTimer # 0 => codespacesKeepAliveTimer \in DOMAIN intervals)

\* the keep-alive was disabled in Codespaces while a heartbeat was in flight:
\* the interval is gone
C10_Witness ==
    /\ last.op = "configuration"
    /\ isCodespacesEnvironment(Cur)
    /\ ~cfg.codespacesKeepAlive
    /\ ~disposed
    /\ DOMAIN calls # {}
    /\ DOMAIN intervals = {}

\* C11: a heartbeat that fails is logged and nothing is thrown; the step changes
\* neither the panel nor the idle timer, starts no heartbeat and leaves the
\* interval running as it was; a heartbeat starts only on a tick of the
\* interval or on a restart of the keep-alive.
C11_HeartbeatFailureSwallowed ==
    /\ [][(last'.op = "heartbeat" /\ last'.warned)
             => /\ ~last'.threw
                /\ panels' = panels
                /\ currentPanel' = currentPanel
                /\ timeouts' = timeouts
                /\ idleTimer' = idleTimer
                /\ intervals' = intervals
                /\ codespacesKeepAliveTimer' = codespacesKeepAliveTimer
                /\ DOMAIN calls' \subseteq DOMAIN calls
                /\ DOMAIN calls' # DOMAIN calls
                /\ ~sendingCodespacesKeepAlive']_vars
    /\ [][last'.started => last'.op \in {"interval", "configuration"}]_vars

\* a heartbeat failed while the panel was shown and the interval was running
C11_Witness ==
    /\ last.op = "heartbeat"
    /\ last.warned
    /\ ~last.threw
    /\ currentPanel # 0
    /\ DOMAIN intervals # {}
    /\ DOMAIN calls = {}

\* C12: when the asset of the requested animation cannot be read and show()
\* throws the failure to its caller, no panel without content is shown.
C12_ReadFailureShowsNoBlankPanel ==
    last.threw => \A p \in DOMAIN panels : panels[p].html # ""

\* the stored value is a finite number > 0
PositiveFinite(v) == v.t = "number" /\ v.n > 0

\* C13: the effective idleMinutes and codespacesKeepAliveIntervalMinutes are
\* the stored value where it is a finite number > 0, and the defaults 5 and 3
\* for every other stored value (here in thousandths).
C13_InvalidNumbersFallBackToDefault ==
    /\ getIdleMinutes(Cur) =
          IF PositiveFinite(cfg.idleMinutes) THEN cfg.idleMinutes.n ELSE 5 * 1000
    /\ getCodespacesKeepAliveIntervalMinutes(Cur) =
          IF PositiveFinite(cfg.codespacesKeepAliveIntervalMinutes)
          THEN cfg.codespacesKeepAliveIntervalMinutes.n
          ELSE 3 * 1000

\* NaN was written to idleMinutes, with 1.5 stored for the keep-alive interval:
\* the countdown was armed for 5 minutes and the interval runs every 1.5
C13_Witness ==
    /\ last.op = "configuration"
    /\ cfg.idleMinutes = NotANumber
    /\ cfg.codespacesKeepAliveIntervalMinutes = Number(1500)
    /\ idleTimer # 0
    /\ timeouts[idleTimer].delay = 300000
    /\ codespacesKeepAliveTimer # 0
    /\ intervals[codespacesKeepAliveTimer].period = 90000

\* the four values the mode setting documents
ValidModes == {"beziers", "mystify", "flyingWindows", "random"}

\* C14: the effective mode of every stored string other than the four
\* documented ones is random; the toggle command and the idle timer then open
\* a panel with one of the three animations (title and content of the same
\* entry; without content only where its asset cannot be read, and then
\* show() throws); resolveScreenSaver returns a concrete mode unchanged and
\* always an entry of the registry.
C14_InvalidModeFallsBackToRandom ==
    /\ [](getConfiguredMode(Cur) = IF cfg.mode \in ValidModes THEN cfg.mode ELSE "random")
    /\ [](\A mode \in ValidModes, pick \in ScreenSaverIds :
             /\ resolveScreenSaver(mode, pick) \in DOMAIN SCREENSAVERS
             /\ mode # "random" => resolveScreenSaver(mode, pick) = mode)
    /\ [][(last'.op \in {"toggle", "idleTimer"} /\ cfg.mode \notin ValidModes
             /\ currentPanel = 0 /\ currentPanel' # 0)
             => \E id \in ScreenSaverIds :
                   /\ panels'[currentPanel'].title = SCREENSAVERS[id].title
                   /\ id \notin unreadable
                        => /\ panels'[currentPanel'].html = SCREENSAVERS[id].filename
                           /\ ~last'.threw
                   /\ id \in unreadable
                        => /\ panels'[currentPanel'].html = ""
                           /\ last'.threw]_vars

\* with the mode set to a string that names no animation, the toggle command
\* opened the Flying Windows animation
C14_Witness ==
    /\ last.op = "toggle"
    /\ cfg.mode = "starfield"
    /\ currentPanel # 0
    /\ panels[currentPanel].title = "Flying Windows"
    /\ panels[currentPanel].html = "screensavers/flying-windows.html"

\* C15: the document loaded in a panel posts at most one activity message,
\* and input in a document that has posted it changes nothing: no message, no
\* change of the panel, the idle timer or the ignore window.
C15_OneActivityMessagePerLoad ==
    /\ [](\A p \in DOMAIN panels : panels[p].posts <= 1)
    /\ [][(last'.op = "webviewInput" /\ \A p \in DOMAIN panels : panels[p].posts >= 1)
             => /\ inbox' = inbox
                /\ panels' = panels
                /\ currentPanel' = currentPanel
                /\ timeouts' = timeouts
                /\ idleTimer' = idleTimer
                /\ ignoreActivityUntil' = ignoreActivityUntil]_vars

\* input in a document that has posted its message, the message still on its
\* way: nothing was posted
C15_Witness ==
    /\ last.op = "webviewInput"
    /\ ~last.posted
    /\ currentPanel # 0
    /\ panels[currentPanel].sent
    /\ panels[currentPanel].posts = 1
    /\ inbox # {}

\* the scopes that set autoStart explicitly
SetScopes(scopes) == {sc \in ScopeNames : scopes[sc] # undefined}

\* the scopes the running migration has written so far
Written == {activation.targets[i] : i \in 1..(activation.next - 1)}

\* migrateSettings() has overwritten the setting and returned
MigrationDone == activation.pc = "activate" /\ activation.next > 1

C17_MigrationIsOneShot ==
    /\ [][(last'.op = "migrateSettings" /\ settingsMigrationVersion >= 1)
             => /\ autoStartScopes' = autoStartScopes
                /\ cfg' = cfg
                /\ settingsMigrationVersion' = settingsMigrationVersion
                /\ activation'.pc = "activate"
                /\ activation'.targets = <<>>]_vars
    /\ [](activation.pc \in {"update", "advance"} => settingsMigrationVersion < 1)
    /\ [][settingsMigrationVersion >= 1
             => settingsMigrationVersion' = settingsMigrationVersion]_vars

\* an activation with the version at the target and autoStart set to false in
\* the user settings: migrateSettings returned and autoStart is still false
C17_Witness ==
    /\ last.op = "migrateSettings"
    /\ settingsMigrationVersion = 1
    /\ activation.pc = "activate"
    /\ autoStartScopes.global = "false"
    /\ ~cfg.autoStart

\* C18: each of the three show commands leaves a single panel with the title
\* and the content of its own animation, whatever the mode setting and the
\* draw are, and does not write the settings; a panel already shown is kept
\* and its content replaced.  Where the asset of the animation cannot be read,
\* show() throws and the content is left as it was.
C18_ShowCommandShowsItsAnimation ==
    [][\A id \in ScreenSaverIds :
          last'.op = ShowCommands[id]
             => /\ cfg' = cfg
                /\ autoStartScopes' = autoStartScopes
                /\ currentPanel' # 0
                /\ DOMAIN panels' = {currentPanel'}
                /\ currentPanel # 0 => currentPanel' = currentPanel
                /\ panels'[currentPanel'].title = SCREENSAVERS[id].title
                /\ IF id \notin unreadable
                   THEN /\ panels'[currentPanel'].html = SCREENSAVERS[id].filename
                        /\ panels'[currentPanel'].posts = 0
                        /\ ~last'.threw
                   ELSE /\ panels'[currentPanel'].html =
                             IF currentPanel # 0 THEN panels[currentPanel].html ELSE ""
                        /\ last'.threw]_vars

\* with the mode set to beziers and a panel shown, the Flying Windows command
\* put its animation into the panel
C18_Witness ==
    /\ last.op = "otak-screensaver.showFlyingWindows"
    /\ last.hadPanel
    /\ cfg.mode = "beziers"
    /\ currentPanel # 0
    /\ panels[currentPanel].title = "Flying Windows"
    /\ panels[currentPanel].html = "screensavers/flying-windows.html"

\* C19: a message that is null, no object, or an object without the type of
\* the activity message is ignored: nothing is thrown and the panel, the idle
\* timer and the ignore window are as before.
C19_OtherMessagesIgnored ==
    [][last'.op = "otherMessage"
          => /\ ~last'.threw
             /\ panels' = panels
             /\ currentPanel' = currentPanel
             /\ timeouts' = timeouts
             /\ idleTimer' = idleTimer
             /\ ignoreActivityUntil' = ignoreActivityUntil]_vars

\* such a message arrived after the ignore window while the panel was shown,
\* and the panel is still shown
C19_Witness ==
    /\ last.op = "otherMessage"
    /\ ~last.ignoring
    /\ ~last.inWindow
    /\ last.hadPanel
    /\ currentPanel # 0
    /\ panels[currentPanel].html # ""

\* C20: called in any state, restartIdleTimer cancels the pending timeout of
\* idleTimer and arms a new countdown exactly when auto start is enabled, the
\* window is focused and no panel is shown; otherwise idleTimer is left unset.
\* The handlers that call it unconditionally (a configuration change, the
\* disposal of the panel) leave the timer so.
C20_RestartIdleTimerRule ==
    /\ [](LET t == restartIdleTimer(Cur)
          IN  /\ ~t.thrown
              /\ idleTimer # 0 /\ t.idleTimer = 0 => idleTimer \notin DOMAIN t.timeouts
              /\ IF cfg.autoStart /\ focused /\ currentPanel = 0
                 THEN /\ t.idleTimer # 0
                      /\ DOMAIN t.timeouts = (DOMAIN timeouts \ {idleTimer}) \cup {t.idleTimer}
                      /\ t.timeouts[t.idleTimer].age = 0
                      /\ t.timeouts[t.idleTimer].left = t.timeouts[t.idleTimer].delay
                      /\ Cardinality(DOMAIN t.timeouts) = 1
                 ELSE /\ t.idleTimer = 0
                      /\ DOMAIN t.timeouts = DOMAIN timeouts \ {idleTimer})
    /\ [][((last'.op = "configuration" /\ ~disposed) \/ last'.op = "panelClosed")
             => Rearmed]_vars

\* a configuration change found a countdown pending with time passed since
\* the panel was stopped, and the countdown starts anew
C20_Witness ==
    /\ last.op = "configuration"
    /\ ~disposed
    /\ cfg.autoStart /\ focused /\ currentPanel = 0
    /\ sinceSelfAction = 500
    /\ idleTimer # 0
    /\ timeouts[idleTimer].age = 0

\* C21: no state has both a pending idle timer and a shown panel.
C21_NoTimerWhilePanelShown ==
    ~(currentPanel # 0 /\ (idleTimer # 0 \/ DOMAIN timeouts # {}))

\* C22: at most one callback of the idle timer is pending, idleTimer is set
\* exactly when one is and names it; a step that arms a countdown leaves no
\* other, and the callback that fires finds its handle cleared.
C22_SingleIdleTimer ==
    /\ [](/\ Cardinality(DOMAIN timeouts) <= 1
          /\ (idleTimer # 0 <=> DOMAIN timeouts # {})
          /\ (idleTimer # 0 => idleTimer \in DOMAIN timeouts))
    /\ [][(last'.op # "tick" /\ idleTimer' # 0 /\ timeouts' # timeouts)
             => DOMAIN timeouts' = {idleTimer'}]_vars
    /\ [][last'.op = "idleTimer"
             => /\ idleTimer' = 0
                /\ DOMAIN timeouts' = {}]_vars

\* the countdown ended with the window unfocused: the callback ran, opened
\* nothing, and neither a handle nor a callback is left
C22_Witness ==
    /\ last.op = "idleTimer"
    /\ ~last.hadPanel
    /\ currentPanel = 0
    /\ idleTimer = 0
    /\ DOMAIN timeouts = {}
    /\ cfg.autoStart
    /\ ~disposed

\* C23: a show() that finds no panel and fails to read the asset leaves no
\* panel and leaves currentPanel unset.
C23_FailedShowLeavesNoPanel ==
    (last.threw /\ ~last.hadPanel /\ last.op \in ShowCommandNames \cup {"toggle", "idleTimer"})
        => /\ currentPanel = 0
           /\ DOMAIN panels = {}

\* C24: once the subscriptions are disposed, no idle timer and no keep-alive
\* interval is armed and no panel is opened.
C24_DisarmedAfterDispose ==
    /\ [](disposed
            => /\ idleTimer = 0
               /\ DOMAIN timeouts = {}
               /\ codespacesKeepAliveTimer = 0
               /\ DOMAIN intervals = {})
    /\ [][disposed => DOMAIN panels' \subseteq DOMAIN panels]_vars

C26_StopScreensaverWithPanel ==
    /\ [](currentPanel # 0
            => LET t == stopScreensaver(Cur)
               IN  /\ ~t.thrown
                   /\ t.ignoreActivityUntil = 500
                   /\ t.currentPanel = 0
                   /\ DOMAIN t.panels = DOMAIN panels \ {currentPanel}
                   /\ IF cfg.autoStart /\ focused
                      THEN /\ t.idleTimer # 0
                           /\ DOMAIN t.timeouts = {t.idleTimer}
                           /\ t.timeouts[t.idleTimer].age = 0
                           /\ t.timeouts[t.idleTimer].left = t.timeouts[t.idleTimer].delay
                      ELSE /\ t.idleTimer = 0
                           /\ DOMAIN t.timeouts = {})
    /\ [][(currentPanel # 0 /\ ~disposed
             /\ \/ last'.op = "toggle"
                \/ last'.op \in {"hostSignal", "windowState"} /\ ~last'.ignoring)
             => /\ ignoreActivityUntil' = 500
                /\ currentPanel' = 0
                /\ DOMAIN panels' = {}
                /\ Rearmed]_vars

\* a host signal after the ignore window stopped the panel: the window is set
\* anew and the countdown armed
C26_Witness ==
    /\ last.op = "hostSignal"
    /\ ~last.ignoring
    /\ last.hadPanel
    /\ currentPanel = 0
    /\ DOMAIN panels = {}
    /\ ignoreActivityUntil = 500
    /\ idleTimer # 0
    /\ timeouts[idleTimer].age = 0

\* C27: a host signal handled while Date.now() is before ignoreActivityUntil
\* changes nothing: not the panel, not the pending countdown nor its
\* remaining time, not ignoreActivityUntil.
C27_DroppedSignalIsNoOp ==
    [][(last'.op \in {"hostSignal", "windowState"} /\ ~disposed /\ 0 < ignoreActivityUntil)
          => /\ last'.ignoring
             /\ panels' = panels
             /\ currentPanel' = currentPanel
             /\ idleTimer' = idleTimer
             /\ timeouts' = timeouts
             /\ ignoreActivityUntil' = ignoreActivityUntil
             /\ inbox' = inbox
             /\ cfg' = cfg]_vars

\* a host signal was dropped while a countdown that had run for some time was
\* pending: the countdown goes on
C27_Witness ==
    /\ last.op = "hostSignal"
    /\ last.ignoring
    /\ 0 < ignoreActivityUntil
    /\ idleTimer # 0
    /\ timeouts[idleTimer].age > 0
    /\ timeouts[idleTimer].left > 0

C29_UserClosedPanelRearms ==
    [][(last'.op = "panelClosed" /\ currentPanel # 0)
          => /\ currentPanel' = 0
             /\ DOMAIN panels' = DOMAIN panels \ {currentPanel}
             /\ ignoreActivityUntil' = ignoreActivityUntil
             /\ ~last'.threw
             /\ IF cfg.autoStart /\ focused
                THEN /\ idleTimer' # 0
                     /\ DOMAIN timeouts' = {idleTimer'}
                     /\ timeouts'[idleTimer'].age = 0
                     /\ timeouts'[idleTimer'].left = timeouts'[idleTimer'].delay
                ELSE /\ idleTimer' = 0
                     /\ DOMAIN timeouts' = {}]_vars

\* the user closed the panel after the ignore window: the countdown is armed
\* and the window is not set
C29_Witness ==
    /\ last.op = "panelClosed"
    /\ last.hadPanel
    /\ ~last.ignoring
    /\ ~disposed
    /\ currentPanel = 0
    /\ ignoreActivityUntil = 0
    /\ idleTimer # 0
    /\ timeouts[idleTimer].age = 0

\* C30: called with no panel shown, stopScreensaver returns the state it was
\* called in: the ignore window, the idle timer and the countdown are as
\* before.
C30_StopScreensaverWithoutPanel ==
    currentPanel = 0
        => LET t == stopScreensaver(Cur)
           IN  /\ t.ignoreActivityUntil = ignoreActivityUntil
               /\ t.idleTimer = idleTimer
               /\ t.timeouts = timeouts
               /\ t.panels = panels
               /\ t.currentPanel = 0
               /\ ~t.thrown

\* no panel is shown, no ignore window is set and a countdown has partly run
C30_Witness ==
    /\ currentPanel = 0
    /\ ~disposed
    /\ ignoreActivityUntil = 0
    /\ idleTimer # 0
    /\ timeouts[idleTimer].age > 0
    /\ timeouts[idleTimer].left > 0
    /\ stopScreensaver(Cur) = Cur

C32_FailedWriteAbortsActivation ==
    /\ [][(last'.op = "configUpdate" /\ last'.threw)
             => /\ activation'.pc = "rejected"
                /\ settingsMigrationVersion' = settingsMigrationVersion
                /\ settingsMigrationVersion' < SETTINGS_MIGRATION_VERSION]_vars
    /\ [](activation.pc = "rejected"
            => /\ settingsMigrationVersion < SETTINGS_MIGRATION_VERSION
               /\ idleTimer = 0
               /\ codespacesKeepAliveTimer = 0
               /\ DOMAIN timeouts = {}
               /\ DOMAIN intervals = {}
               /\ DOMAIN panels = {}
               /\ DOMAIN calls = {})
    /\ [][(activation.pc = "rejected" /\ last'.op = "launch")
             => activation'.pc = "migrateSettings"]_vars
    /\ [][(last'.op = "migrateSettings"
              /\ settingsMigrationVersion < SETTINGS_MIGRATION_VERSION)
             => activation'.pc = "update"]_vars

\* the write to the workspace folder went through and the write to the user
\* settings failed: the version is still 0 and nothing is armed
C32_Witness ==
    /\ last.op = "configUpdate"
    /\ last.threw
    /\ activation.pc = "rejected"
    /\ activation.next = 2
    /\ settingsMigrationVersion = 0
    /\ idleTimer = 0
    /\ cfg.autoStart

FullPeriodAhead ==
    /\ codespacesKeepAliveTimer \in DOMAIN intervals
    /\ intervals[codespacesKeepAliveTimer].left = intervals[codespacesKeepAliveTimer].period

\* C34: a restart of the keep-alive in Codespaces with the keep-alive enabled,
\* at activation and on a change of the settings, calls heartbeat() at once: a
\* heartbeat starts unless one is in flight, and the new interval has its
\* whole period ahead.  The heartbeat so started may follow the previous one
\* by less than a minute, the shortest interval there is.
C34_RestartSendsHeartbeatAtOnce ==
    /\ []((last.op = "activate" /\ KeepAliveWanted)
            => /\ last.started
               /\ sendingCodespacesKeepAlive
               /\ FullPeriodAhead)
    /\ [][(last'.op = "configuration" /\ ~disposed /\ KeepAliveWanted')
             => /\ sendingCodespacesKeepAlive \/ last'.started
                /\ sendingCodespacesKeepAlive'
                /\ FullPeriodAhead'
                /\ last'.started => (sinceHeartbeat' = 0 /\ last'.gap = sinceHeartbeat)]_vars

\* a change of the settings started a heartbeat half a second after the
\* previous heartbeat had started, with an interval of a minute or more
C34_Witness ==
    /\ last.op = "configuration"
    /\ last.started
    /\ last.gap = 500
    /\ FullPeriodAhead
    /\ intervals[codespacesKeepAliveTimer].period >= 60000

\* C35: the in-flight flag is set exactly while a heartbeat is pending: a
\* heartbeat that ends, fulfilled after its third step or rejected at any of
\* the three, leaves the flag false, and a tick of the interval that finds
\* the flag false starts a heartbeat.
C35_FlagReleasedOnCompletion ==
    /\ [](sendingCodespacesKeepAlive <=> DOMAIN calls # {})
    /\ [][(last'.op = "heartbeat" /\ DOMAIN calls' # DOMAIN calls)
             => /\ ~sendingCodespacesKeepAlive'
                /\ DOMAIN calls' = {}]_vars
    /\ [][(last'.op = "heartbeat" /\ last'.warned)
             => ~sendingCodespacesKeepAlive']_vars
    /\ [][(last'.op = "interval" /\ ~sendingCodespacesKeepAlive)
             => (last'.started /\ sendingCodespacesKeepAlive')]_vars

\* a heartbeat was rejected with a tick of the interval due: the flag is false and the tick will start the next heartbeat
C35_Witness ==
    /\ last.op = "heartbeat"
    /\ last.warned
    /\ ~sendingCodespacesKeepAlive
    /\ DOMAIN calls = {}
    /\ ~disposed
    /\ codespacesKeepAliveTimer \in DOMAIN intervals
    /\ intervals[codespacesKeepAliveTimer].left = 0

\* C36: nothing is thrown out of the wake-lock code of the document, whether
\* a request or a release fails, and with preventDisplaySleep false no event
\* leads to a call of navigator.wakeLock.request: no request is ever pending
\* and no lock is ever held or stored.
C36_WakeLockNeverThrowsAndInertWhenOff ==
    /\ ~doc.thrown
    /\ ~doc.preventDisplaySleep
          => /\ ~doc.called
             /\ doc.requests = 0
             /\ DOMAIN doc.sentinels = {}
             /\ doc.wakeLock = 0
             /\ doc.releases = <<>>

\* the wake lock is switched off and the document, visible on a platform
\* with the API, got the focus: nothing was requested
C36_Witness ==
    /\ doc.op = "focus"
    /\ ~doc.preventDisplaySleep
    /\ doc.hasWakeLock
    /\ doc.visibilityState = "visible"
    /\ ~doc.called

\* C37: as long as no release() has failed, the document holds at most one
\* wake lock and every lock it holds is the one stored in wakeLock, which a
\* blur or a hide releases.
C37_OneTrackedWakeLock ==
    ~doc.failedRelease
        => /\ Cardinality(Held(doc)) <= 1
           /\ \A id \in Held(doc) : doc.wakeLock = id

\* two requests were granted, that of the load and that of a focus event that
\* came before the first was granted: two locks are held
C37_TwoLocksHeld ==
    /\ ~doc.failedRelease
    /\ Cardinality(Held(doc)) = 2

\* a request was granted after the blur that followed it: a lock is held by
\* a document without the focus, and no release is pending
C37_LockHeldAfterBlur ==
    /\ ~doc.failedRelease
    /\ doc.op = "requestSettled"
    /\ ~doc.hasFocus
    /\ Held(doc) # {}

\* the letters and the digits
Alphanumeric ==
    {"A", "B", "C", "D", "E", "F", "G", "H", "I", "J", "K", "L", "M",
     "N", "O", "P", "Q", "R", "S", "T", "U", "V", "W", "X", "Y", "Z",
     "a", "b", "c", "d", "e", "f", "g", "h", "i", "j", "k", "l", "m",
     "n", "o", "p", "q", "r", "s", "t", "u", "v", "w", "x", "y", "z",
     "0", "1", "2", "3", "4", "5", "6", "7", "8", "9"}

\* the nonce a tag carries: the one put in front of its attributes, or its own
nonceOf(tok) ==
    IF tok.nonce # <<>> THEN tok.nonce
    ELSE IF tok.src = " nonce=\"abc\"" THEN <<"a", "b", "c">>
    ELSE <<>>

\* the script tags of a document
Scripts(html) == {i \in DOMAIN html : html[i].kind = "script"}

\* the document has the policy whose script-src allows the nonce and no more
HasPolicy(html, nonce) ==
    \E i \in DOMAIN html : html[i].kind = "meta" /\ html[i].nonce = nonce

\* the nonce is 32 letters and digits
WellFormed(nonce) ==
    /\ Len(nonce) = 32
    /\ \A k \in DOMAIN nonce : nonce[k] \in Alphanumeric

InFrontMatter(lines, i) ==
    /\ trim(lines[1]) = <<"-", "-", "-">>
    /\ \A j \in 2..(i - 1) : trim(lines[j]) # <<"-", "-", "-">>

\* line i is a fence line: past the front matter, and it starts, after white
\* space, with three or more backticks or three or more tildes
IsFenceLine(lines, i) == ~InFrontMatter(lines, i) /\ fenceMatch(lines[i]) # ""

\* no fence line between lines k and i starts with the marker of line k
StillOpen(lines, k, i) ==
    \A m \in (k + 1)..(i - 1) :
        ~(IsFenceLine(lines, m) /\ fenceMatch(lines[m]) = fenceMatch(lines[k]))

\* fence line j opens a block: no block opened before it is open at j
RECURSIVE Opens(_, _)
Opens(lines, j) ==
    /\ IsFenceLine(lines, j)
    /\ \A k \in 1..(j - 1) : ~(Opens(lines, k) /\ StillOpen(lines, k, j))

\* line i lies in a fenced code block
InFencedBlock(lines, i) ==
    \E k \in 1..(i - 1) : Opens(lines, k) /\ StillOpen(lines, k, i)

\* line i has a Japanese character and ends, white space aside, with a colon
JapaneseEndingWithColon(line) ==
    /\ \E i \in DOMAIN line :
          line[i] \in {"hiragana", "katakana", "kanji", "iteration mark", "long vowel mark"}
    /\ \E i \in DOMAIN line :
          /\ line[i] \in {":", "fullwidth colon"}
          /\ \A j \in (i + 1)..Len(line) : line[j] \in {" ", "\t"}

\* C39: the scan reports, once each and in the order of the text, exactly
\* the lines that have a Japanese character and end (trailing white space
\* aside) with ':' or the fullwidth colon and that lie outside the leading
\* front-matter block and outside the fenced code blocks, a block being
\* closed only by a fence line with the marker character of the line that
\* opened it; no fence line is reported.
C39_ScanReportsTheJapaneseColonLines ==
    lint.pc = "scanned"
        => /\ {lint.issues[n].line : n \in DOMAIN lint.issues}
                = {i \in DOMAIN lint.lines :
                      /\ JapaneseEndingWithColon(lint.lines[i])
                      /\ ~InFrontMatter(lint.lines, i)
                      /\ ~IsFenceLine(lint.lines, i)
                      /\ ~InFencedBlock(lint.lines, i)}
           /\ \A n \in 1..(Len(lint.issues) - 1) :
                 lint.issues[n].line < lint.issues[n + 1].line

\* a block opened with backticks, a line of tildes in it, a line of backticks
\* and a line to report: the tildes did not close the block, the backticks
\* did, and the last line is reported
C39_Witness ==
    /\ lint.pc = "scanned"
    /\ lint.lines = <<(<<"backtick", "backtick", "backtick">>),
                      (<<" ", "tilde", "tilde", "tilde", "tilde">>),
                      (<<"backtick", "backtick", "backtick">>),
                      (<<"kanji", "fullwidth colon">>)>>
    /\ lint.issues = <<[line |-> 4, col |-> 2]>>

====
